---- MODULE Spec2Model ----
(***************************************************************************)
(* A model of the mal interpreter in rust/src: the environment chain       *)
(* (env.rs), parameter binding (ns.rs new_from), a few host functions      *)
(* (ns.rs) and the evaluator (eval.rs).                                    *)
(*                                                                         *)
(* Values (types.rs LispType) are tagged tuples, the tag first.  An Env    *)
(* (Rc<RefCell<EnvData>>) is the index of its EnvData in st.envs, so two   *)
(* clones of one Rc are the same index; 0 stands for outer = None.  An     *)
(* Atom (a RefCell<LispValue> behind an Rc) is likewise the index of its   *)
(* cell in st.atoms.                                                       *)
(* The evaluator is recursive in the source and recursive here: every      *)
(* function of eval.rs is one operator that takes the interpreter state    *)
(* and returns an outcome that carries the state it leaves behind.         *)
(***************************************************************************)
EXTENDS Integers, Sequences, FiniteSets, TLC

VARIABLES st, last, steps

vars == <<st, last, steps>>

(***************************************************************************)
(* types.rs: the value constructors.                                       *)
(***************************************************************************)
new_nil == <<"Nil">>

new_boolean(b) == <<"Boolean", b>>

new_string(s) == <<"String", s>>

new_number(n) == <<"Number", n>>

new_symbol(s) == <<"Symbol", s>>

new_list(seq) == <<"List", seq>>

new_vector(seq) == <<"Vector", seq>>

new_lambda(params, body, env, is_macro) == <<"Lambda", params, body, env, is_macro>>

new_fn(f) == <<"Fn", f>>

new_keyword(s) == <<"Keyword", s>>

\* new_atom: allocates the cell; the result is the state and the new value
new_atom(s, v) ==
    [st |-> [s EXCEPT !.atoms = Append(s.atoms, v)],
     val |-> <<"Atom", Len(s.atoms) + 1>>]

Tag(v) == v[1]

IsSymbol(v) == Tag(v) = "Symbol"

IsLambda(v) == Tag(v) = "Lambda"

\* the payload of a Symbol, String or Number; the elements of a List or Vector
Payload(v) == v[2]

\* the fields of LispType::Lambda
LambdaParams(v) == v[2]

LambdaBody(v) == v[3]

LambdaEnv(v) == v[4]

LambdaIsMacro(v) == v[5]

(***************************************************************************)
(* error.rs: EvaluationError, and the three ways a call can end.  A panic  *)
(* (unreachable!(), a RefCell borrow conflict) unwinds the whole           *)
(* interpreter: no and_then, try! or try* stops it.                        *)
(***************************************************************************)
MissingSymbol(s) == <<"MissingSymbol", s>>

Message(s) == <<"Message", s>>

WrongArity(v) == <<"WrongArity", v>>

BadArguments(v) == <<"BadArguments", v>>

Exception(v) == <<"Exception", v>>

Ok(v, s) == [tag |-> "Ok", val |-> v, st |-> s]

Err(e, s) == [tag |-> "Err", val |-> e, st |-> s]

Panic(s) == [tag |-> "Panic", val |-> <<"panic">>, st |-> s]

IsOk(r) == r.tag = "Ok"

IsErr(r) == r.tag = "Err"

\* The call does not return to its caller: it panicked, or the reader under
\* read-string loops without end.
IsPanic(r) == r.tag \in {"Panic", "Hang"}

(***************************************************************************)
(* reader.rs: the tokenizer.  The input is a string and CharAt picks one   *)
(* character of it; positions in a string count from 1.  TOKEN_REGEX      *)
(* skips blanks and commas and then captures one of five alternatives: the *)
(* splice sigil, one special character, a string, a comment, or a run of   *)
(* characters that end no token.  It matches at every position, because    *)
(* the last alternative matches the empty string.                          *)
(***************************************************************************)
CharAt(text, i) == SubSeq(text, i, i)

\* text[i ..], the slice to the end.
From(text, i) == SubSeq(text, i, Len(text))

\* The whitespace class of the regex, over the characters the inputs use.
Whitespace == {" ", "\n", "\t"}

\* Blanks and commas: the first position at or after i that holds no blank or comma.
RECURSIVE SkipBlank(_, _)
SkipBlank(text, i) ==
    IF i <= Len(text) /\ CharAt(text, i) \in Whitespace \cup {","}
    THEN SkipBlank(text, i + 1)
    ELSE i

\* A TLA+ string cannot hold a backquote: the model writes the character
\* as a dollar sign, which no input of the model uses otherwise.
Backquote == "$"

\* The special characters, each a token of its own.
SpecialChars == {"[", "]", "{", "}", "(", ")", "'", Backquote, "~", "^", "@"}

\* The body of a string from position i, just after the opening quote: the
\* position after the closing quote, or 0 when the alternative cannot match.
\* A backslash can only start an escape pair, and `.` is not a newline.
RECURSIVE StringEnd(_, _)
StringEnd(text, i) ==
    IF i > Len(text) THEN 0
    ELSE IF CharAt(text, i) = "\"" THEN i + 1
    ELSE IF CharAt(text, i) = "\\"
         THEN IF i + 1 <= Len(text) /\ CharAt(text, i + 1) # "\n"
              THEN StringEnd(text, i + 2)
              ELSE 0
    ELSE StringEnd(text, i + 1)

\* The rest of the line, for a comment.
RECURSIVE LineEnd(_, _)
LineEnd(text, i) ==
    IF i <= Len(text) /\ CharAt(text, i) # "\n" THEN LineEnd(text, i + 1) ELSE i

\* The characters that end a run.
NonAtomChars == Whitespace \cup {"[", "]", "{", "}", "(", "'", "\"", Backquote, ",", ";", ")"}

\* A run of characters that end no token, possibly empty.
RECURSIVE AtomEnd(_, _)
AtomEnd(text, i) ==
    IF i <= Len(text) /\ CharAt(text, i) \notin NonAtomChars
    THEN AtomEnd(text, i + 1)
    ELSE i

\* One match of TOKEN_REGEX that starts at position i: the text of capture
\* group 1 and the position after the match.  The alternatives are tried in
\* the order the regex lists them.
TokenMatch(text, i) ==
    LET b == SkipBlank(text, i)
        c == IF b <= Len(text) THEN CharAt(text, b) ELSE ""
        e == IF c = "~" /\ b + 1 <= Len(text) /\ CharAt(text, b + 1) = "@" THEN b + 2
             ELSE IF c \in SpecialChars THEN b + 1
             ELSE IF c = "\"" /\ StringEnd(text, b + 1) # 0 THEN StringEnd(text, b + 1)
             ELSE IF c = ";" THEN LineEnd(text, b + 1)
             ELSE AtomEnd(text, b)
    IN  [capture |-> SubSeq(text, b, e - 1), end |-> e]

\* Regex::captures_iter: the successive matches.  last_end is where the next
\* search starts, last_match where the previous match ended (0 for None).  An
\* empty match right after a match is not reported: the search moves on by
\* one character.  Matches gives the next k matches at most, and where the
\* iterator stands after them; captures_iter takes them RunLen at a time, so
\* that the depth of the evaluation grows with the number of runs and not
\* with the number of tokens.
RunLen == 8

RECURSIVE Matches(_, _, _, _)
Matches(text, last_end, last_match, k) ==
    IF last_end > Len(text) + 1
    THEN [captures |-> <<>>, last_end |-> last_end, last_match |-> last_match, done |-> TRUE]
    ELSE IF k = 0
    THEN [captures |-> <<>>, last_end |-> last_end, last_match |-> last_match, done |-> FALSE]
    ELSE LET m == TokenMatch(text, last_end)
         IN  IF m.end = last_end /\ last_end = last_match
             THEN Matches(text, last_end + 1, last_match, k)
             ELSE LET rest == Matches(text, m.end, m.end, k - 1)
                  IN  [rest EXCEPT !.captures = <<m.capture>> \o @]

RECURSIVE captures_iter(_, _, _)
captures_iter(text, last_end, last_match) ==
    LET run == Matches(text, last_end, last_match, RunLen)
    IN  IF run.done THEN run.captures
        ELSE run.captures \o captures_iter(text, run.last_end, run.last_match)

Open == "Open"

Close == "Close"

TokenAtom(c) == <<"Atom", c>>

TokenComment(c) == <<"Comment", c>>

TokenList(dir) == <<"List", dir>>

TokenVector(dir) == <<"Vector", dir>>

TokenMap(dir) == <<"Map", dir>>

token_from(c) ==
    IF Len(c) > 0 /\ CharAt(c, 1) = ";" THEN TokenComment(c)
    ELSE CASE c = "(" -> TokenList(Open)
           [] c = ")" -> TokenList(Close)
           [] c = "[" -> TokenVector(Open)
           [] c = "]" -> TokenVector(Close)
           [] c = "{" -> TokenMap(Open)
           [] c = "}" -> TokenMap(Close)
           [] OTHER -> TokenAtom(c)

tokenizer(input) ==
    LET captures == captures_iter(input, 1, 0)
    IN  [i \in 1 .. Len(captures) |-> token_from(captures[i])]

(***************************************************************************)
(* reader.rs: the Reader, a cursor over the tokens.  position counts from  *)
(* 0 as in the source; the field current_token always equals               *)
(* tokens[position], so the model derives it.                              *)
(***************************************************************************)
None == <<"None">>

Reader_new(tokens) == [tokens |-> tokens, position |-> 0]

Reader_peek(r) ==
    IF r.position < Len(r.tokens) THEN r.tokens[r.position + 1] ELSE None

Reader_is_empty(r) == r.position = Len(r.tokens)

\* Iterator::next: the cursor moves only when there is a current token.
Reader_next(r) ==
    IF Reader_peek(r) = None THEN r ELSE [r EXCEPT !.position = @ + 1]

(***************************************************************************)
(* error.rs: ReaderError.                                                  *)
(***************************************************************************)
ReaderMessage(s) == <<"ReaderError", "Message", s>>

ExtraInput(tokens, pos) == <<"ReaderError", "ExtraInput", tokens, pos>>

EmptyInput == <<"ReaderError", "EmptyInput">>

(***************************************************************************)
(* reader.rs: the atoms.                                                   *)
(***************************************************************************)
DigitChars == "0123456789"

IsDigit(c) == \E d \in 1 .. 10 : CharAt(DigitChars, d) = c

DigitValue(c) == (CHOOSE d \in 1 .. 10 : CharAt(DigitChars, d) = c) - 1

RECURSIVE DigitsValue(_, _)
DigitsValue(acc, text) ==
    IF text = "" THEN acc
    ELSE DigitsValue(acc * 10 + DigitValue(CharAt(text, 1)), From(text, 2))

AllDigits(text) == Len(text) > 0 /\ \A i \in 1 .. Len(text) : IsDigit(CharAt(text, i))

HasNewline(text) == \E i \in 1 .. Len(text) : CharAt(text, i) = "\n"

\* str::replace: every occurrence, left to right, never overlapping.
RECURSIVE Replace(_, _, _)
Replace(text, from, to) ==
    IF Len(text) < Len(from) THEN text
    ELSE IF SubSeq(text, 1, Len(from)) = from
         THEN to \o Replace(From(text, Len(from) + 1), from, to)
         ELSE CharAt(text, 1) \o Replace(From(text, 2), from, to)

read_str(s) == Replace(Replace(Replace(s, "\\\"", "\""), "\\n", "\n"), "\\\\", "\\")

\* Each *_from returns <<TRUE, value>> or <<FALSE>>; read_atom takes the
\* first that succeeds.
nil_from(token) == IF token = "nil" THEN <<TRUE, new_nil>> ELSE <<FALSE>>

boolean_from(token) ==
    IF token \in {"true", "false"} THEN <<TRUE, new_boolean(token = "true")>> ELSE <<FALSE>>

\* str::parse::<i64>: an optional sign and at least one digit.  The numbers
\* of the model stay far inside the range of i64, outside of which parse
\* fails.
number_from(token) ==
    IF AllDigits(token) THEN <<TRUE, new_number(DigitsValue(0, token))>>
    ELSE IF Len(token) > 1 /\ CharAt(token, 1) = "+" /\ AllDigits(From(token, 2))
         THEN <<TRUE, new_number(DigitsValue(0, From(token, 2)))>>
    ELSE IF Len(token) > 1 /\ CharAt(token, 1) = "-" /\ AllDigits(From(token, 2))
         THEN <<TRUE, new_number(0 - DigitsValue(0, From(token, 2)))>>
    ELSE <<FALSE>>

\* A token that starts with a colon; caps.at(0) keeps the colon.
keyword_from(token) ==
    IF Len(token) > 0 /\ CharAt(token, 1) = ":" /\ ~HasNewline(token)
    THEN <<TRUE, new_keyword(token)>>
    ELSE <<FALSE>>

\* A token inside double quotes, with no newline between them.
string_from(token) ==
    IF /\ Len(token) >= 2
       /\ CharAt(token, 1) = "\""
       /\ CharAt(token, Len(token)) = "\""
       /\ ~HasNewline(SubSeq(token, 2, Len(token) - 1))
    THEN <<TRUE, new_string(read_str(SubSeq(token, 2, Len(token) - 1)))>>
    ELSE <<FALSE>>

symbol_from(token) == <<TRUE, new_symbol(token)>>

AtomFrom(s) ==
    IF nil_from(s)[1] THEN nil_from(s)[2]
    ELSE IF boolean_from(s)[1] THEN boolean_from(s)[2]
    ELSE IF number_from(s)[1] THEN number_from(s)[2]
    ELSE IF keyword_from(s)[1] THEN keyword_from(s)[2]
    ELSE IF string_from(s)[1] THEN string_from(s)[2]
    ELSE symbol_from(s)[2]

\* The outcomes of the reader carry the Reader they leave behind.
read_atom(r) ==
    LET token == Reader_peek(r)
    IN  IF token = None THEN Err(ReaderMessage("error missing tokens"), r)
        ELSE IF token[1] = "Atom" THEN Ok(AtomFrom(token[2]), Reader_next(r))
        ELSE Err(ReaderMessage("reader: trying to get atom from non-atom token"),
                 Reader_next(r))

(***************************************************************************)
(* types.rs: Assoc, the bindings of a map.  A string key and a keyword key *)
(* are stored under their text, the keyword with its colon.                *)
(***************************************************************************)
new_map(m) == <<"Map", m>>

Assoc_new == [k \in {} |-> new_nil]

\* Assoc::insert: <<TRUE, bindings>> or <<FALSE, error>>.
Assoc_insert(m, key, value) ==
    IF Tag(key) \in {"String", "Keyword"}
    THEN <<TRUE, (Payload(key) :> value) @@ m>>
    ELSE <<FALSE, Message("key value is not hashable")>>

RECURSIVE AssocInsertAll(_, _)
AssocInsertAll(m, seq) ==
    IF seq = <<>> THEN <<TRUE, m>>
    ELSE LET ins == Assoc_insert(m, seq[1], seq[2])
         IN  IF ins[1] THEN AssocInsertAll(ins[2], SubSeq(seq, 3, Len(seq))) ELSE ins

Assoc_from_seq(seq) ==
    IF Len(seq) % 2 # 0
    THEN <<FALSE, Message("need an even number of elements to make a map")>>
    ELSE AssocInsertAll(Assoc_new, seq)

new_map_from_seq(seq) ==
    LET assoc == Assoc_from_seq(seq)
    IN  IF assoc[1] THEN <<TRUE, new_map(assoc[2])>> ELSE assoc

(***************************************************************************)
(* reader.rs: read_form and read_seq.  A loop of the source is a recursive *)
(* operator here; Hang is the outcome of a loop that never ends.  An       *)
(* iteration of the loop of read_seq that ends with the Reader and the     *)
(* collected forms as they were when it began is followed by the same      *)
(* iteration again, for ever.                                              *)
(***************************************************************************)
Hang(r) == [tag |-> "Hang", val |-> <<"hang">>, st |-> r]

IsHang(o) == o.tag = "Hang"

CouldNotReadForm == ReaderMessage("could not read form")

IsClose(token) == token \in {TokenList(Close), TokenVector(Close), TokenMap(Close)}

ReaderMacros ==
    [k \in {"'", Backquote, "~", "~@", "@"} |->
        CASE k = "'" -> "quote"
          [] k = Backquote -> "quasiquote"
          [] k = "~" -> "unquote"
          [] k = "~@" -> "splice-unquote"
          [] k = "@" -> "deref"]

RECURSIVE read_form(_)
RECURSIVE read_seq(_)
RECURSIVE ReadSeqLoop(_, _)

\* macro_rules! macroexpand: an error of the inner read_form leaves result
\* as read_form initialised it.
reader_macroexpand(literal, r) ==
    LET next_form == read_form(Reader_next(r))
    IN  IF IsOk(next_form)
        THEN Ok(new_list(<<new_symbol(literal), next_form.val>>), next_form.st)
        ELSE IF IsHang(next_form) THEN next_form
        ELSE Err(CouldNotReadForm, next_form.st)

ReadWithMeta(r) ==
    LET meta == read_form(Reader_next(r))
    IN  IF ~IsOk(meta) THEN meta
        ELSE LET data == read_form(meta.st)
             IN  IF ~IsOk(data) THEN data
                 ELSE Ok(new_list(<<new_symbol("with-meta"), data.val, meta.val>>), data.st)

read_list(r) ==
    LET seq == read_seq(r)
    IN  IF IsOk(seq) THEN Ok(new_list(seq.val), seq.st) ELSE seq

read_vector(r) ==
    LET seq == read_seq(r)
    IN  IF IsOk(seq) THEN Ok(new_vector(seq.val), seq.st) ELSE seq

read_map(r) ==
    LET seq == read_seq(r)
    IN  IF ~IsOk(seq) THEN seq
        ELSE LET map == new_map_from_seq(seq.val)
             IN  IF map[1] THEN Ok(map[2], seq.st)
                 ELSE Err(ReaderMessage(Payload(map[2])), seq.st)

read_form(r) ==
    LET token == Reader_peek(r)
    IN  IF token = None THEN Err(CouldNotReadForm, r)
        ELSE CASE token[1] = "Comment" -> read_form(Reader_next(r))
               [] token[1] = "Atom" ->
                    IF token[2] \in DOMAIN ReaderMacros
                    THEN reader_macroexpand(ReaderMacros[token[2]], r)
                    ELSE IF token[2] = "^" THEN ReadWithMeta(r)
                    ELSE IF token[2] = "" THEN Err(EmptyInput, r)
                    ELSE read_atom(r)
               [] token = TokenList(Open) -> read_list(r)
               [] token = TokenVector(Open) -> read_vector(r)
               [] token = TokenMap(Open) -> read_map(r)
               [] OTHER -> Err(CouldNotReadForm, r)

ReadSeqLoop(r, seq) ==
    LET token == Reader_peek(r)
    IN  IF token = None THEN Err(ReaderMessage("did not close seq properly"), r)
        ELSE IF IsClose(token) THEN Ok(seq, Reader_next(r))
        ELSE LET form == read_form(r)
             IN  IF IsOk(form) THEN ReadSeqLoop(form.st, Append(seq, form.val))
                 ELSE IF IsHang(form) \/ form.st = r THEN Hang(r)
                 ELSE ReadSeqLoop(form.st, seq)

read_seq(r) == ReadSeqLoop(Reader_next(r), <<>>)

\* read, after the tokenizer: the form, or ExtraInput when tokens are left.
ReadTokens(tokens) ==
    LET result == read_form(Reader_new(tokens))
    IN  IF IsHang(result) \/ Reader_is_empty(result.st) THEN result
        ELSE Err(ExtraInput(tokens, result.st.position), result.st)

read(input) == ReadTokens(tokenizer(input))

(***************************************************************************)
(* printer.rs.  The atoms are cells of the interpreter state s.  The       *)
(* iteration order of the HashMap of a map is not specified; KeyOrder is   *)
(* one order, and the only one for a map of at most one key.               *)
(***************************************************************************)
\* i64::to_string
RECURSIVE NatToString(_)
NatToString(n) ==
    IF n < 10 THEN CharAt(DigitChars, n + 1)
    ELSE NatToString(n \div 10) \o CharAt(DigitChars, (n % 10) + 1)

IntToString(n) == IF n < 0 THEN "-" \o NatToString(0 - n) ELSE NatToString(n)

RECURSIVE unread_chars(_)
unread_chars(s) ==
    IF s = "" THEN ""
    ELSE (CASE CharAt(s, 1) = "\n" -> "\\n"
            [] CharAt(s, 1) = "\\" -> "\\\\"
            [] CharAt(s, 1) = "\"" -> "\\\""
            [] OTHER -> CharAt(s, 1)) \o unread_chars(From(s, 2))

unread_str(s) == "\"" \o unread_chars(s) \o "\""

unread_keyword(s) == s

RECURSIVE KeyOrder(_)
KeyOrder(keys) ==
    IF keys = {} THEN <<>>
    ELSE LET k == CHOOSE x \in keys : TRUE IN <<k>> \o KeyOrder(keys \ {k})

RECURSIVE Join(_, _)
Join(strs, sep) ==
    IF strs = <<>> THEN ""
    ELSE IF Len(strs) = 1 THEN strs[1]
    ELSE strs[1] \o sep \o Join(Tail(strs), sep)

RECURSIVE pr_str(_, _, _)

pr_seq(seq, readably, s) ==
    Join([i \in 1 .. Len(seq) |-> pr_str(seq[i], readably, s)], " ")

\* types.rs Assoc::print: a key that starts with a colon prints as a keyword.
Assoc_print(m, readably, s) ==
    LET keys == KeyOrder(DOMAIN m)
        proper_key(k) == IF Len(k) > 0 /\ CharAt(k, 1) = ":" THEN new_keyword(k) ELSE new_string(k)
    IN  Join([i \in 1 .. Len(keys) |->
                pr_str(proper_key(keys[i]), readably, s) \o " " \o pr_str(m[keys[i]], readably, s)],
             " ")

pr_str(value, readably, s) ==
    CASE Tag(value) = "Nil" -> "nil"
      [] Tag(value) = "Boolean" -> IF Payload(value) THEN "true" ELSE "false"
      [] Tag(value) = "String" -> IF readably THEN unread_str(Payload(value)) ELSE Payload(value)
      [] Tag(value) = "Keyword" -> unread_keyword(Payload(value))
      [] Tag(value) = "Number" -> IntToString(Payload(value))
      [] Tag(value) = "Symbol" -> Payload(value)
      [] Tag(value) = "Lambda" -> IF LambdaIsMacro(value) THEN "#<macro>" ELSE "#<fn>"
      [] Tag(value) = "Fn" -> "#<host-fn>"
      [] Tag(value) = "List" -> "(" \o pr_seq(Payload(value), readably, s) \o ")"
      [] Tag(value) = "Vector" -> "[" \o pr_seq(Payload(value), readably, s) \o "]"
      [] Tag(value) = "Map" -> "{" \o Assoc_print(Payload(value), readably, s) \o "}"
      [] Tag(value) = "Atom" -> "(atom " \o pr_str(s.atoms[Payload(value)], TRUE, s) \o ")"

print(value, s) == pr_str(value, TRUE, s)

(***************************************************************************)
(* env.rs                                                                  *)
(***************************************************************************)
NoEnv == 0

\* EnvData { bindings, outer }
EnvData(ns, outer) == [bindings |-> ns, outer |-> outer]

\* ns::Ns::new(): the empty HashMap
EmptyNs == [k \in {} |-> new_nil]

\* HashMap::insert: the new value replaces an older one under the same key
NsInsert(ns, key, val) == (key :> val) @@ ns

\* env::new: allocates a frame; the result is the state and the new Env
EnvNew(s, outer, ns) ==
    [st |-> [s EXCEPT !.envs = Append(s.envs, EnvData(ns, outer))],
     env |-> Len(s.envs) + 1]

\* env::empty_from
EnvEmptyFrom(s, outer) == EnvNew(s, outer, EmptyNs)

\* set with the binding put into the outermost frame
EnvSet_IntoRoot(s, env, key, val) ==
    [s EXCEPT !.envs[1].bindings = NsInsert(s.envs[1].bindings, key, val)]

\* EnvData::set
EnvSet(s, env, key, val) ==
    [s EXCEPT !.envs[env].bindings = NsInsert(s.envs[env].bindings, key, val)]

RECURSIVE EnvFind(_, _, _)
\* find with the outer frames asked before this one
EnvFind_OuterFirst(s, env, key) ==
    LET d == s.envs[env]
        up == IF d.outer # NoEnv THEN EnvFind(s, d.outer, key) ELSE <<>>
    IN  IF up # <<>> THEN up
        ELSE IF key \in DOMAIN d.bindings THEN <<d.bindings[key]>>
        ELSE <<>>

\* EnvData::find: this frame, else the outer one, else None
EnvFind(s, env, key) ==
    LET d == s.envs[env]
    IN  IF key \in DOMAIN d.bindings THEN <<d.bindings[key]>>
        ELSE IF d.outer # NoEnv THEN EnvFind(s, d.outer, key)
        ELSE <<>>

\* EnvData::get
EnvGet(s, env, key) ==
    LET found == EnvFind(s, env, key)
    IN  IF found # <<>> THEN Ok(found[1], s) ELSE Err(MissingSymbol(key), s)

\* env::root
RECURSIVE EnvRoot(_, _)
EnvRoot(s, env) ==
    IF s.envs[env].outer # NoEnv THEN EnvRoot(s, s.envs[env].outer) ELSE env

(***************************************************************************)
(* ns.rs: parameter binding and the host functions the model uses.         *)
(***************************************************************************)
\* the parameter names before the first "&" (all_params[0] of new_from)
RECURSIVE BoundParams(_)
BoundParams(names) ==
    IF names = <<>> \/ Head(names) = "&" THEN <<>>
    ELSE <<Head(names)>> \o BoundParams(Tail(names))

\* the names after the first "&" up to the next one (all_params.get(1)),
\* <<"&">> when the list holds no "&" at all (None)
VarParams(names) ==
    LET k == Len(BoundParams(names))
    IN  IF k = Len(names) THEN <<"&">>
        ELSE BoundParams(SubSeq(names, k + 2, Len(names)))

\* bindings.into_iter() inserted one after the other (ns::new)
RECURSIVE NsFromPairs(_, _, _)
NsFromPairs(ns, keys, vals) ==
    IF keys = <<>> \/ vals = <<>> THEN ns
    ELSE NsFromPairs(NsInsert(ns, Head(keys), Head(vals)), Tail(keys), Tail(vals))

\* new_from with the rest parameter bound to all the arguments
new_from_RestKeepsAll(params, exprs) ==
    LET names == [i \in 1 .. Len(params) |-> Payload(params[i])]
        bound_params == BoundParams(names)
        taken == IF Len(exprs) < Len(bound_params) THEN Len(exprs) ELSE Len(bound_params)
        bound_exprs == SubSeq(exprs, 1, taken)
        var_params == VarParams(names)
        has_var == var_params # <<"&">> /\ var_params # <<>>
    IN  IF has_var
        THEN NsFromPairs(EmptyNs, Append(bound_params, var_params[1]),
                         Append(bound_exprs, new_list(exprs)))
        ELSE NsFromPairs(EmptyNs, bound_params, bound_exprs)

\* ns::new_from, for params that are all symbols
new_from(params, exprs) ==
    LET names == [i \in 1 .. Len(params) |-> Payload(params[i])]
        bound_params == BoundParams(names)
        taken == IF Len(exprs) < Len(bound_params) THEN Len(exprs) ELSE Len(bound_params)
        bound_exprs == SubSeq(exprs, 1, taken)
        var_params == VarParams(names)
        has_var == var_params # <<"&">> /\ var_params # <<>>
        var_exprs == SubSeq(exprs, taken + 1, Len(exprs))
    IN  IF has_var
        THEN NsFromPairs(EmptyNs, Append(bound_params, var_params[1]),
                         Append(bound_exprs, new_list(var_exprs)))
        ELSE NsFromPairs(EmptyNs, bound_params, bound_exprs)

\* the match in new_from's map: a parameter that is no symbol is unreachable!()
ParamsAreSymbols(params) == \A i \in 1 .. Len(params) : IsSymbol(params[i])

\* ns::i64_from_ast: a value that is no number counts as 0
i64_from_ast(a, b) ==
    <<IF Tag(a) = "Number" THEN Payload(a) ELSE 0,
      IF Tag(b) = "Number" THEN Payload(b) ELSE 0>>

\* the fold of ns::add over the rest of the arguments
RECURSIVE AddFold(_, _)
AddFold(acc, rest) ==
    IF rest = <<>> THEN acc
    ELSE LET ab == i64_from_ast(acc, Head(rest))
         IN  AddFold(new_number(ab[1] + ab[2]), Tail(rest))

\* ns::add through ns::fold_first
add(seq, s) ==
    IF Len(seq) < 2 THEN Err(Message("not enough args to op"), s)
    ELSE Ok(AddFold(Head(seq), Tail(seq)), s)

\* i64 `/`: the quotient rounded towards zero (b is not 0)
TruncDiv(a, b) ==
    LET abs(x) == IF x < 0 THEN 0 - x ELSE x
        q == abs(a) \div abs(b)
    IN  IF (a < 0) = (b < 0) THEN q ELSE 0 - q

\* the fold of ns::div over the rest of the arguments: <<TRUE, value>>, or
\* <<FALSE>> when a division panics ("attempt to divide by zero").  The
\* numbers of the model stay far from i64::MIN, whose division by -1 panics
\* as well.
RECURSIVE DivFold(_, _)
DivFold(acc, rest) ==
    IF rest = <<>> THEN <<TRUE, acc>>
    ELSE LET ab == i64_from_ast(acc, Head(rest))
         IN  IF ab[2] = 0 THEN <<FALSE>>
             ELSE DivFold(new_number(TruncDiv(ab[1], ab[2])), Tail(rest))

\* ns::div through ns::fold_first
div(seq, s) ==
    IF Len(seq) < 2 THEN Err(Message("not enough args to op"), s)
    ELSE IF DivFold(Head(seq), Tail(seq))[1] THEN Ok(DivFold(Head(seq), Tail(seq))[2], s)
    ELSE Panic(s)

\* ns::to_list
to_list(args, s) == Ok(new_list(args), s)

StringsOf(args, readably, s) == [i \in 1 .. Len(args) |-> pr_str(args[i], readably, s)]

string_of(args, readably, separator, s) == Join(StringsOf(args, readably, s), separator)

to_str(args, s) == Ok(new_string(string_of(args, FALSE, "", s)), s)

\* println!: the line goes to standard output
println(args, s) ==
    Ok(new_nil, [s EXCEPT !.out = Append(@, <<"stdout", string_of(args, FALSE, " ", s)>>)])

\* The files File::open can read, by name, with their contents.
Files ==
    ("inc.mal" :> "(def! a 1) (+ a 1)")
        @@ ("unbound.mal" :> "(def! a 1) (b)")
        @@ ("throw.mal" :> "(throw 7)")
        @@ ("open.mal" :> "(def! a 1")
        @@ ("string.mal" :> "(def! a \"b")

\* What load-file gives read-string for a file: (str "(do " (slurp f) ")")
DoText(file_name) == "(do " \o Files[file_name] \o ")"

\* reader::read of the texts read-string is applied to, as <<tag, value>>.
\* The reader is run on each of these texts in SpecTexts, and TabulatedReads
\* states that it gives these outcomes.
ReadOutcomes ==
    (DoText("inc.mal") :>
        <<"Ok", new_list(<<new_symbol("do"),
                           new_list(<<new_symbol("def!"), new_symbol("a"), new_number(1)>>),
                           new_list(<<new_symbol("+"), new_symbol("a"), new_number(1)>>)>>)>>)
        @@ (DoText("unbound.mal") :>
              <<"Ok", new_list(<<new_symbol("do"),
                                 new_list(<<new_symbol("def!"), new_symbol("a"), new_number(1)>>),
                                 new_list(<<new_symbol("b")>>)>>)>>)
        @@ (DoText("throw.mal") :>
              <<"Ok", new_list(<<new_symbol("do"),
                                 new_list(<<new_symbol("throw"), new_number(7)>>)>>)>>)
        @@ (DoText("open.mal") :> <<"Err", ReaderMessage("did not close seq properly")>>)
        @@ (DoText("string.mal") :> <<"Hang", <<"hang">> >>)

\* The match on the ReaderError has arms for Message and EmptyInput.
ReadStringError(e) ==
    IF e[2] = "Message" THEN Message(e[3]) ELSE Message("input was empty")

ReadStringExtraInput(e) == Message("extra input after full form")

read_string(args, s) ==
    IF args = <<>> THEN Err(Message("not enough arg in args"), s)
    ELSE IF Tag(args[1]) # "String" THEN Err(Message("wrong type of first argument"), s)
    ELSE LET form == ReadOutcomes[Payload(args[1])]
         IN  IF form[1] = "Hang" THEN Hang(s)
             ELSE IF form[1] = "Ok" THEN Ok(form[2], s)
             ELSE IF form[2][2] = "ExtraInput" THEN Err(ReadStringExtraInput(form[2]), s)
             ELSE Err(ReadStringError(form[2]), s)

slurp(args, s) ==
    IF args = <<>> \/ Tag(args[1]) # "String"
    THEN Err(Message("slurp could not get filename from args"), s)
    ELSE IF Payload(args[1]) \in DOMAIN Files
    THEN Ok(new_string(Files[Payload(args[1])]), s)
    ELSE Err(Message("slurp could not read file"), s)

\* ns::throw
throw(args, s) == Err(Exception(IF args = <<>> THEN new_nil ELSE args[1]), s)

\* ns::cons
cons(args, s) ==
    IF Len(args) >= 2 /\ Tag(args[2]) \in {"List", "Vector"}
    THEN Ok(new_list(<<args[1]>> \o Payload(args[2])), s)
    ELSE Err(Message("call to cons failed"), s)

\* ns::concat
RECURSIVE ConcatLoop(_, _)
ConcatLoop(result, args) ==
    IF args = <<>> THEN <<"Ok", result>>
    ELSE IF Tag(Head(args)) \in {"List", "Vector"}
         THEN ConcatLoop(result \o Payload(Head(args)), Tail(args))
         ELSE <<"Err">>

concat(args, s) ==
    LET result == ConcatLoop(<<>>, args)
    IN  IF result[1] = "Ok" THEN Ok(new_list(result[2]), s)
        ELSE Err(Message("wrong arg type for concat"), s)

\* ns::first
first(args, s) ==
    IF args = <<>> THEN Err(Message("call to first failed"), s)
    ELSE CASE Tag(args[1]) \in {"List", "Vector"} ->
                Ok(IF Payload(args[1]) = <<>> THEN new_nil ELSE Payload(args[1])[1], s)
           [] Tag(args[1]) = "Nil" -> Ok(new_nil, s)
           [] OTHER -> Err(Message("call to first failed"), s)

\* ns::to_atom
to_atom(args, s) ==
    IF args = <<>> THEN Err(Message("wrong arity"), s)
    ELSE LET cell == new_atom(s, args[1]) IN Ok(cell.val, cell.st)

\* ns::deref: atom.borrow() panics while swap! holds the cell's borrow_mut()
deref(args, s) ==
    IF args = <<>> THEN Err(WrongArity(new_nil), s)
    ELSE IF Tag(args[1]) = "Atom"
         THEN IF Payload(args[1]) \in s.held THEN Panic(s)
              ELSE Ok(s.atoms[Payload(args[1])], s)
         ELSE Err(Message("wrong type of argument to deref"), s)

\* reset that answers the value and leaves the cell as it was
reset_NoStore(args, s) ==
    IF Len(args) < 2 THEN Err(Message("wrong arity"), s)
    ELSE IF Tag(args[1]) = "Atom"
         THEN IF Payload(args[1]) \in s.held THEN Panic(s)
              ELSE Ok(args[2], s)
         ELSE Err(Message("wrong type of argument to reset!"), s)

\* ns::reset: atomr.borrow_mut() panics while swap! holds the cell
reset(args, s) ==
    IF Len(args) < 2 THEN Err(Message("wrong arity"), s)
    ELSE IF Tag(args[1]) = "Atom"
         THEN IF Payload(args[1]) \in s.held THEN Panic(s)
              ELSE Ok(args[2], [s EXCEPT !.atoms[Payload(args[1])] = args[2]])
         ELSE Err(Message("wrong type of argument to reset!"), s)

\* ns::core, the builtins the model's programs use
core ==
    ("+" :> new_fn("add")) @@ ("/" :> new_fn("div"))
        @@ ("list" :> new_fn("to_list")) @@ ("throw" :> new_fn("throw"))
        @@ ("cons" :> new_fn("cons")) @@ ("concat" :> new_fn("concat"))
        @@ ("first" :> new_fn("first"))
        @@ ("atom" :> new_fn("to_atom")) @@ ("deref" :> new_fn("deref"))
        @@ ("reset!" :> new_fn("reset")) @@ ("swap!" :> new_fn("swap"))
        @@ ("apply" :> new_fn("apply"))
        @@ ("str" :> new_fn("to_str")) @@ ("println" :> new_fn("println"))
        @@ ("read-string" :> new_fn("read_string")) @@ ("slurp" :> new_fn("slurp"))

(***************************************************************************)
(* eval.rs.  Every operator returns Ok(value, state), Err(error, state) or *)
(* Panic(state).  and_then and try! pass an Err on; nothing stops a Panic. *)
(*                                                                         *)
(* s.borrowed is the set of frames whose RefCell is immutably borrowed     *)
(* across a call: macroexpand keeps the Ref of `env.borrow()` alive while  *)
(* it applies the macro (eval.rs 447-449), so a borrow_mut() of that frame *)
(* inside the application panics.  s.held is the set of atoms whose cell   *)
(* is mutably borrowed: swap! keeps the RefMut of `atom.borrow_mut()`      *)
(* alive while it applies the function (ns.rs 725-739).                    *)
(***************************************************************************)
IF_FORM == "if"

SEQUENCE_FORM == "do"

DEFINE_FORM == "def!"

LET_FORM == "let*"

LAMBDA_FORM == "fn*"

EVAL_FORM == "eval"

QUOTE_FORM == "quote"

QUASIQUOTE_FORM == "quasiquote"

MACRO_FORM == "defmacro!"

MACROEXPAND_FORM == "macroexpand"

TRY_FORM == "try*"

CATCH_FORM == "catch*"

PAIR_CHUNK_SIZE == 2

SpecialForms ==
    {IF_FORM, SEQUENCE_FORM, DEFINE_FORM, LET_FORM, LAMBDA_FORM, EVAL_FORM,
     QUOTE_FORM, QUASIQUOTE_FORM, MACRO_FORM, MACROEXPAND_FORM, TRY_FORM}

IsSeqValue(v) == Tag(v) \in {"List", "Vector"}

\* env.borrow_mut().set(key, val): panics when the frame is borrowed
BorrowMutSet(s, env, key, val, result) ==
    IF env \in s.borrowed THEN Panic(s) ELSE Ok(result, EnvSet(s, env, key, val))

RECURSIVE eval(_, _, _)
RECURSIVE eval_list(_, _, _)
RECURSIVE eval_seq(_, _, _)
RECURSIVE apply(_, _, _, _)
RECURSIVE apply_lambda(_, _, _, _, _)
RECURSIVE eval_sequence(_, _, _)
RECURSIVE eval_vector(_, _, _)
RECURSIVE eval_if(_, _, _)
RECURSIVE eval_define(_, _, _)
RECURSIVE eval_let(_, _, _)
RECURSIVE build_let_env(_, _, _)
RECURSIVE build_let_env_pairs(_, _, _)
RECURSIVE eval_eval(_, _, _)
RECURSIVE eval_macro(_, _, _)
RECURSIVE macroexpand(_, _, _)
RECURSIVE eval_macroexpand(_, _, _)
RECURSIVE eval_try(_, _, _)
RECURSIVE eval_exception(_, _, _, _)
RECURSIVE eval_quasiquote(_, _, _)
RECURSIVE eval_quasiquote_for(_, _, _)
RECURSIVE QuasiNested(_, _, _)
RECURSIVE swap(_, _)
RECURSIVE HostCall(_, _, _)
RECURSIVE invoke(_, _, _)
RECURSIVE ns_apply(_, _)

eval_symbol(name, env, s) == EnvGet(s, env, name)

eval_self_evaluating(val, s) == Ok(val, s)

eval_seq(operands, env, s) ==
    IF operands = <<>> THEN Ok(<<>>, s)
    ELSE LET evop == eval(Head(operands), env, s)
         IN  IF ~IsOk(evop) THEN evop
             ELSE LET more == eval_seq(Tail(operands), env, evop.st)
                  IN  IF ~IsOk(more) THEN more
                      ELSE Ok(<<evop.val>> \o more.val, more.st)

\* apply with the body run in a child of the caller's frame
apply_DynamicScope(operator, operands, env, s) ==
    LET evops == eval_seq(operands, env, s)
    IN  IF ~IsOk(evops) THEN evops
        ELSE LET evop == eval(operator, env, evops.st)
             IN  IF ~IsOk(evop) THEN evop
                 ELSE CASE Tag(evop.val) = "Lambda" ->
                             apply_lambda(LambdaParams(evop.val), LambdaBody(evop.val),
                                          env, evops.val, evop.st)
                        [] Tag(evop.val) = "Fn" ->
                             HostCall(Payload(evop.val), evops.val, evop.st)
                        [] OTHER -> Panic(evop.st)

\* the two callable arms of the match in apply and in ns::swap:
\* Lambda => apply_lambda(params, body, env, args), Fn(f) => f(args)
invoke(f, args, s) ==
    IF Tag(f) = "Lambda"
    THEN apply_lambda(LambdaParams(f), LambdaBody(f), LambdaEnv(f), args, s)
    ELSE HostCall(Payload(f), args, s)

apply(operator, operands, env, s) ==
    LET evops == eval_seq(operands, env, s)
    IN  IF ~IsOk(evops) THEN evops
        ELSE LET evop == eval(operator, env, evops.st)
             IN  IF ~IsOk(evop) THEN evop
                 ELSE IF Tag(evop.val) \in {"Lambda", "Fn"}
                      THEN invoke(evop.val, evops.val, evop.st)
                      ELSE Panic(evop.st)

\* apply_lambda with the parameters bound in the captured frame itself
apply_lambda_InCapturedFrame(params, body, env, evops, s) ==
    IF ~ParamsAreSymbols(params) THEN Panic(s)
    ELSE LET ns == new_from(params, evops)
             bound == [s EXCEPT !.envs[env].bindings = ns @@ @]
         IN  eval_sequence(body, env, bound)

apply_lambda(params, body, env, evops, s) ==
    IF ~ParamsAreSymbols(params) THEN Panic(s)
    ELSE LET new_env == EnvNew(s, env, new_from(params, evops))
         IN  eval_sequence(body, new_env.env, new_env.st)

\* ns::swap: the cell stays mutably borrowed from before the call of f until
\* the new value is stored or the error is returned
swap(args, s) ==
    IF Len(args) < 2 THEN Err(Message("wrong arity to swap!"), s)
    ELSE IF Tag(args[1]) # "Atom" \/ Tag(args[2]) \notin {"Lambda", "Fn"}
         THEN Err(Message("wrong type of arguments to swap!"), s)
    ELSE IF Payload(args[1]) \in s.held THEN Panic(s)
    ELSE LET atom == Payload(args[1])
             f == args[2]
             full_params == <<s.atoms[atom]>> \o SubSeq(args, 3, Len(args))
             borrowed == [s EXCEPT !.held = @ \cup {atom}]
             newval == invoke(f, full_params, borrowed)
             released == [newval.st EXCEPT !.held = s.held]
         IN  CASE IsPanic(newval) -> newval
               [] IsOk(newval) -> Ok(newval.val, [released EXCEPT !.atoms[atom] = newval.val])
               [] OTHER -> Err(newval.val, released)

\* ns::flatten_last: <<TRUE, args>> or <<FALSE, error>>
flatten_last(args) ==
    LET len == Len(args)
    IN  IF len = 0 THEN <<TRUE, <<>>>>
        ELSE IF IsSeqValue(args[len]) THEN <<TRUE, SubSeq(args, 1, len - 1) \o Payload(args[len])>>
        ELSE <<FALSE, Message("last argument to apply must be a list")>>

\* ns::apply.  For a Lambda the flattened arguments are put behind the
\* function in a new list, and the list is given to eval in the
\* environment the lambda captured.
ns_apply(args, s) ==
    IF Len(args) < 2 THEN Err(WrongArity(new_nil), s)
    ELSE LET f == args[1]
             flat == flatten_last(Tail(args))
         IN  IF Tag(f) = "Lambda"
             THEN IF flat[1] THEN eval(new_list(<<f>> \o flat[2]), LambdaEnv(f), s)
                  ELSE Err(flat[2], s)
             ELSE IF Tag(f) = "Fn"
             THEN IF flat[1] THEN HostCall(Payload(f), flat[2], s)
                  ELSE Err(flat[2], s)
             ELSE Err(Message("expected first argument to apply to be a function"), s)

\* LispType::Fn(f) => f(evops): the call through the function pointer
HostCall(f, args, s) ==
    CASE f = "add" -> add(args, s)
      [] f = "div" -> div(args, s)
      [] f = "to_list" -> to_list(args, s)
      [] f = "throw" -> throw(args, s)
      [] f = "cons" -> cons(args, s)
      [] f = "concat" -> concat(args, s)
      [] f = "first" -> first(args, s)
      [] f = "to_atom" -> to_atom(args, s)
      [] f = "deref" -> deref(args, s)
      [] f = "reset" -> reset(args, s)
      [] f = "swap" -> swap(args, s)
      [] f = "apply" -> ns_apply(args, s)
      [] f = "to_str" -> to_str(args, s)
      [] f = "println" -> println(args, s)
      [] f = "read_string" -> read_string(args, s)
      [] f = "slurp" -> slurp(args, s)

\* seq.iter().map(eval).last(): every form is evaluated, the last result kept
eval_sequence(seq, env, s) ==
    IF seq = <<>> THEN Err(Message("could not eval sequence"), s)
    ELSE LET result == eval(Head(seq), env, s)
         IN  IF Len(seq) = 1 \/ IsPanic(result) THEN result
             ELSE eval_sequence(Tail(seq), env, result.st)

eval_vector(seq, env, s) ==
    LET evs == eval_seq(seq, env, s)
    IN  IF ~IsOk(evs) THEN evs ELSE Ok(new_vector(evs.val), evs.st)

eval_if(seq, env, s) ==
    IF Len(seq) < 2 THEN Err(Message("wrong arity"), s)
    ELSE LET p == eval(seq[1], env, s)
         IN  IF ~IsOk(p) THEN p
             ELSE IF p.val = new_nil \/ p.val = new_boolean(FALSE)
                  THEN IF Len(seq) >= 3 THEN eval(seq[3], env, p.st)
                       ELSE Ok(new_nil, p.st)
                  ELSE eval(seq[2], env, p.st)

eval_define(seq, env, s) ==
    IF Len(seq) < 2 THEN Err(Message("wrong arity"), s)
    ELSE IF ~IsSymbol(seq[1]) THEN Panic(s)
    ELSE LET val == eval(seq[2], env, s)
         IN  IF ~IsOk(val) THEN val
             ELSE BorrowMutSet(val.st, env, Payload(seq[1]), val.val, val.val)

eval_let(seq, env, s) ==
    IF seq = <<>> THEN Err(Message("wrong arity"), s)
    ELSE IF IsSeqValue(seq[1])
         THEN LET built == build_let_env(Payload(seq[1]), env, s)
              IN  IF ~IsOk(built) THEN built
                  ELSE eval_sequence(Tail(seq), built.val, built.st)
         ELSE Err(Message("wrong type!"), s)

\* the loop with every expression evaluated in the enclosing frame
build_let_env_pairs_InOuter(bindings, env, s) ==
    IF Len(bindings) < PAIR_CHUNK_SIZE THEN Ok(env, s)
    ELSE IF ~IsSymbol(bindings[1]) THEN Panic(s)
    ELSE LET val == eval(bindings[2], s.envs[env].outer, s)
             rest == SubSeq(bindings, PAIR_CHUNK_SIZE + 1, Len(bindings))
         IN  CASE IsPanic(val) -> val
               [] IsOk(val) ->
                    build_let_env_pairs(rest, env, EnvSet(val.st, env, Payload(bindings[1]), val.val))
               [] OTHER -> build_let_env_pairs(rest, env, val.st)

\* the loop of build_let_env over bindings.chunks(2), in the child frame env:
\* a pair whose expression fails is skipped (`.ok()` drops the error)
build_let_env_pairs(bindings, env, s) ==
    IF Len(bindings) < PAIR_CHUNK_SIZE THEN Ok(env, s)
    ELSE IF ~IsSymbol(bindings[1]) THEN Panic(s)
    ELSE LET val == eval(bindings[2], env, s)
             rest == SubSeq(bindings, PAIR_CHUNK_SIZE + 1, Len(bindings))
         IN  CASE IsPanic(val) -> val
               [] IsOk(val) ->
                    build_let_env_pairs(rest, env, EnvSet(val.st, env, Payload(bindings[1]), val.val))
               [] OTHER -> build_let_env_pairs(rest, env, val.st)

\* Some(env): the outcome's value is the new Env
build_let_env(bindings, env, s) ==
    LET child == EnvEmptyFrom(s, env)
    IN  build_let_env_pairs(bindings, child.env, child.st)

eval_lambda(seq, env, s) ==
    IF Len(seq) < 2 THEN Err(Message("wrong arity"), s)
    ELSE IF ~IsSeqValue(seq[1]) THEN Panic(s)
    ELSE Ok(new_lambda(Payload(seq[1]), Tail(seq), env, FALSE), s)

eval_eval(seq, env, s) ==
    LET evs == eval_seq(seq, env, s)
    IN  IF ~IsOk(evs) THEN evs
        ELSE IF evs.val = <<>> THEN Err(Message("wrong arity"), evs.st)
        ELSE eval(evs.val[1], EnvRoot(evs.st, env), evs.st)

eval_quote(seq, s) ==
    IF seq = <<>> THEN Err(Message("wrong arity"), s) ELSE Ok(seq[1], s)

\* (cons first second), a vector when the head element of arg is a vector
QuasiCons(elem, second, as_vector) ==
    LET result == <<new_symbol("cons"), elem, second>>
    IN  IF as_vector THEN new_vector(result) ELSE new_list(result)

\* the arms for a first element that is a non-empty list or vector: None
\* (here an Err) when a sub-expansion fails or splice-unquote has no operand
QuasiNested(arg_elems, env, s) ==
    LET elem == arg_elems[1]
        inner == Payload(elem)
        next == new_list(Tail(arg_elems))
    IN  IF IsSymbol(inner[1]) /\ Payload(inner[1]) = "splice-unquote"
        THEN IF Len(inner) < 2 THEN Err(Message("None"), s)
             ELSE LET vals == eval_quasiquote_for(next, env, s)
                  IN  IF ~IsOk(vals) THEN vals
                      ELSE Ok(new_list(<<new_symbol("concat"), inner[2], vals.val>>), s)
        ELSE LET head == eval_quasiquote_for(elem, env, s)
                 second == eval_quasiquote_for(next, env, s)
             IN  IF ~IsOk(head) THEN head
                 ELSE IF ~IsOk(second) THEN second
                 ELSE Ok(QuasiCons(head.val, second.val, Tag(elem) = "Vector"), s)

eval_quasiquote_for(arg, env, s) ==
    IF ~(IsSeqValue(arg) /\ Payload(arg) # <<>>)
    THEN Ok(new_list(<<new_symbol("quote"), arg>>), s)
    ELSE LET arg_elems == Payload(arg)
             elem == arg_elems[1]
             next == new_list(Tail(arg_elems))
         IN  CASE IsSymbol(elem) /\ Payload(elem) = "unquote" ->
                    IF Len(arg_elems) >= 2 THEN Ok(arg_elems[2], s)
                    ELSE Err(WrongArity(arg), s)
               [] IsSeqValue(elem) /\ Payload(elem) # <<>> ->
                    LET built == QuasiNested(arg_elems, env, s)
                    IN  IF IsOk(built) THEN built ELSE Err(BadArguments(arg), s)
               [] OTHER ->
                    LET head == eval_quasiquote_for(elem, env, s)
                        second == eval_quasiquote_for(next, env, s)
                    IN  IF ~IsOk(head) THEN head
                        ELSE IF ~IsOk(second) THEN second
                        ELSE Ok(QuasiCons(head.val, second.val, FALSE), s)

eval_quasiquote(seq, env, s) ==
    IF seq = <<>> THEN Err(Message("wrong arity"), s)
    ELSE LET val == eval_quasiquote_for(seq[1], env, s)
         IN  IF ~IsOk(val) THEN val ELSE eval(val.val, env, val.st)

\* the match arm binds `env` anew: the set goes to the lambda's own frame
eval_macro(seq, env, s) ==
    IF Len(seq) < 2 THEN Err(Message("not enough arguments in call to defmacro!"), s)
    ELSE IF ~IsSymbol(seq[1]) THEN Panic(s)
    ELSE LET f == eval(seq[2], env, s)
         IN  IF ~IsOk(f) THEN f
             ELSE IF IsLambda(f.val)
                  THEN LET new_f == new_lambda(LambdaParams(f.val), LambdaBody(f.val),
                                               LambdaEnv(f.val), TRUE)
                       IN  BorrowMutSet(f.st, LambdaEnv(f.val), Payload(seq[1]), new_f, new_f)
                  ELSE Err(Message("Could not eval macro"), f.st)

is_macro_call(val, env, s) ==
    /\ Tag(val) = "List"
    /\ Payload(val) # <<>>
    /\ IsSymbol(Payload(val)[1])
    /\ LET found == EnvGet(s, env, Payload(Payload(val)[1]))
       IN  /\ IsOk(found)
           /\ IsLambda(found.val)
           /\ LambdaIsMacro(found.val)

\* macroexpand with a single turn of the loop
macroexpand_Once(val, env, s) ==
    IF ~is_macro_call(val, env, s) THEN Ok(val, s)
    ELSE LET seq == Payload(val)
             found == EnvGet(s, env, Payload(seq[1]))
             held == [s EXCEPT !.borrowed = @ \cup {env}]
             applied == apply(found.val, Tail(seq), env, held)
         IN  [applied EXCEPT !.st.borrowed = s.borrowed]

\* one turn of the while loop and then the rest of it
macroexpand(val, env, s) ==
    IF ~is_macro_call(val, env, s) THEN Ok(val, s)
    ELSE LET seq == Payload(val)
             found == EnvGet(s, env, Payload(seq[1]))
             held == [s EXCEPT !.borrowed = @ \cup {env}]
             applied == apply(found.val, Tail(seq), env, held)
             expansion == [applied EXCEPT !.st.borrowed = s.borrowed]
         IN  IF IsOk(expansion) THEN macroexpand(expansion.val, env, expansion.st)
             ELSE expansion

eval_macroexpand(seq, env, s) ==
    IF seq = <<>> THEN Err(Message("not enough args in call to macroexpand"), s)
    ELSE macroexpand(seq[1], env, s)

\* the handler's value with a thrown value turned into a string as well
CaughtValue_AlwaysString(e) ==
    CASE e[1] = "WrongArity" -> new_string("wrong arity")
      [] e[1] = "BadArguments" -> new_string("bad arguments to fn")
      [] e[1] = "MissingSymbol" -> new_string("'" \o e[2] \o "' not found")
      [] e[1] = "Message" -> new_string(e[2])
      [] e[1] = "Exception" -> new_string("exception")

\* the value a catch* handler receives for an error
CaughtValue(e) ==
    CASE e[1] = "WrongArity" -> new_string("wrong arity")
      [] e[1] = "BadArguments" -> new_string("bad arguments to fn")
      [] e[1] = "MissingSymbol" -> new_string("'" \o e[2] \o "' not found")
      [] e[1] = "Message" -> new_string(e[2])
      [] e[1] = "Exception" -> e[2]

eval_catch(handler, env, s) ==
    IF ~(Tag(handler) = "List" /\ Len(Payload(handler)) >= 3)
    THEN Err(Message("wrong arity to catch handler"), s)
    ELSE LET seq == Payload(handler)
         IN  IF IsSymbol(seq[1]) /\ Payload(seq[1]) # CATCH_FORM
             THEN Err(Message("no catch handler supplied -- missing catch* ?"), s)
             ELSE Ok(new_lambda(<<seq[2]>>, <<seq[3]>>, env, FALSE), s)

eval_exception(handler, exception, env, s) ==
    apply_lambda(LambdaParams(handler), LambdaBody(handler), env, <<exception>>, s)

eval_try(seq, env, s) ==
    IF Len(seq) < 2 THEN Err(Message("wrong arity"), s)
    ELSE LET result == eval(seq[1], env, s)
         IN  IF ~IsErr(result) THEN result
             ELSE LET handler == eval_catch(seq[2], env, result.st)
                  IN  IF ~IsOk(handler) THEN handler
                      ELSE eval_exception(handler.val, CaughtValue(result.val), env, handler.st)

eval_list(seq, env, s) ==
    IF seq = <<>> THEN Ok(new_list(seq), s)
    ELSE LET operator == Head(seq)
             operands == Tail(seq)
             form == IF IsSymbol(operator) THEN Payload(operator) ELSE ""
         IN  CASE form = IF_FORM -> eval_if(operands, env, s)
               [] form = SEQUENCE_FORM -> eval_sequence(operands, env, s)
               [] form = DEFINE_FORM -> eval_define(operands, env, s)
               [] form = LET_FORM -> eval_let(operands, env, s)
               [] form = LAMBDA_FORM -> eval_lambda(operands, env, s)
               [] form = EVAL_FORM -> eval_eval(operands, env, s)
               [] form = QUOTE_FORM -> eval_quote(operands, s)
               [] form = QUASIQUOTE_FORM -> eval_quasiquote(operands, env, s)
               [] form = MACRO_FORM -> eval_macro(operands, env, s)
               [] form = MACROEXPAND_FORM -> eval_macroexpand(operands, env, s)
               [] form = TRY_FORM -> eval_try(operands, env, s)
               [] OTHER -> apply(operator, operands, env, s)

eval(val, env, s) ==
    CASE Tag(val) = "Symbol" -> eval_symbol(Payload(val), env, s)
      [] Tag(val) = "List" ->
           LET expanded == macroexpand(val, env, s)
           IN  IF ~IsOk(expanded) THEN expanded
               ELSE IF Tag(expanded.val) = "List"
                    THEN eval_list(Payload(expanded.val), env, expanded.st)
                    ELSE eval(expanded.val, env, expanded.st)
      [] Tag(val) = "Vector" -> eval_vector(Payload(val), env, s)
      [] OTHER -> eval_self_evaluating(val, s)

(***************************************************************************)
(* The environment used directly, the way env.rs test_nesting uses it:     *)
(* frames are created with empty() and empty_from(), and bound and read    *)
(* with set() and get().  `last` records the call just made and `steps`    *)
(* counts the calls of set().                                              *)
(***************************************************************************)
MaxEnvs == 3

MaxSets == 3

EnvKeys == {"a", "b"}

EnvVals == {new_symbol("a"), new_symbol("b")}

EnvIds(s) == 1 .. Len(s.envs)

\* let one = empty();
InitEnv ==
    /\ st = [envs |-> <<EnvData(EmptyNs, NoEnv)>>, borrowed |-> {}, atoms |-> <<>>, held |-> {}]
    /\ last = <<"empty", 1>>
    /\ steps = 0

\* env::empty_from(outer)
CallEmptyFrom ==
    /\ Len(st.envs) < MaxEnvs
    /\ \E outer \in EnvIds(st) :
          LET r == EnvEmptyFrom(st, outer)
          IN  /\ st' = r.st
              /\ last' = <<"empty_from", r.env>>
    /\ UNCHANGED steps

\* env.borrow_mut().set(key, val)
CallSet ==
    /\ steps < MaxSets
    /\ steps' = steps + 1
    /\ \E env \in EnvIds(st), key \in EnvKeys, val \in EnvVals :
          /\ st' = EnvSet(st, env, key, val)
          /\ last' = <<"set", env, key, val>>

\* env.borrow().get(key)
CallGet ==
    /\ \E env \in EnvIds(st), key \in EnvKeys :
          LET r == EnvGet(st, env, key)
          IN  last' = <<"get", env, key, <<r.tag, r.val>> >>
    /\ UNCHANGED <<st, steps>>

NextEnv == CallEmptyFrom \/ CallSet \/ CallGet

SpecEnv == InitEnv /\ [][NextEnv]_vars

\* the frames from env outwards: env, its outer, ..., the outermost
RECURSIVE Chain(_, _)
Chain(s, env) ==
    IF s.envs[env].outer = NoEnv THEN <<env>>
    ELSE <<env>> \o Chain(s, s.envs[env].outer)

\* the frames strictly outside env
Ancestors(s, env) == {Chain(s, env)[i] : i \in 2 .. Len(Chain(s, env))}

\* what get(key) answers on env in state s: the value or the error
Resolves(s, env, key) == <<EnvGet(s, env, key).tag, EnvGet(s, env, key).val>>

\* C1: a set on a frame makes that frame resolve the name to the new value
\* and leaves what every frame outside it (its outer, the outer's outer, ...)
\* resolves, for every name, as it was: after set(env, n, a) and then
\* set(env', n, b) on a child env', get(env', n) = b and get(env, n) = a.
C1_Shadowing ==
    [][last'[1] = "set" =>
          LET env == last'[2]
              key == last'[3]
              val == last'[4]
          IN  /\ Resolves(st', env, key) = <<"Ok", val>>
              /\ \A p \in Ancestors(st, env) : \A k \in EnvKeys :
                    Resolves(st', p, k) = Resolves(st, p, k)]_vars

\* C1 witness: the last call set a name on a child frame whose outer frame
\* resolves the same name to another value.
C1_Witness ==
    /\ last[1] = "set"
    /\ st.envs[last[2]].outer # NoEnv
    /\ Resolves(st, last[2], last[3]) = <<"Ok", last[4]>>
    /\ Resolves(st, st.envs[last[2]].outer, last[3]) \notin
          {<<"Ok", last[4]>>, <<"Err", MissingSymbol(last[3])>>}

\* the positions in the chain of env whose frame binds key
Binders(s, env, key) ==
    {i \in 1 .. Len(Chain(s, env)) : key \in DOMAIN s.envs[Chain(s, env)[i]].bindings}

Nearest(s, env, key) ==
    CHOOSE i \in Binders(s, env, key) : \A j \in Binders(s, env, key) : i <= j

\* C2: get(key) on a frame answers the binding of the nearest frame of its
\* chain that binds key, and MissingSymbol(key) when no frame of the chain
\* does; so a name bound only in a child is not visible from the parent.
C2_Lookup ==
    \A env \in EnvIds(st), key \in EnvKeys :
        IF Binders(st, env, key) = {}
        THEN Resolves(st, env, key) = <<"Err", MissingSymbol(key)>>
        ELSE Resolves(st, env, key) =
                <<"Ok", st.envs[Chain(st, env)[Nearest(st, env, key)]].bindings[key]>>

\* C2 also as the calls report it: a get just made answered so.
C2_Witness ==
    /\ last[1] = "get"
    /\ Len(Chain(st, last[2])) = 3
    /\ Binders(st, last[2], last[3]) = {2, 3}
    /\ last[4][1] = "Ok"
    /\ last[4][2] # st.envs[Chain(st, last[2])[3]].bindings[last[3]]
    /\ \E c \in EnvIds(st), k \in EnvKeys :
          /\ st.envs[c].outer # NoEnv
          /\ k \in DOMAIN st.envs[c].bindings
          /\ Resolves(st, st.envs[c].outer, k) = <<"Err", MissingSymbol(k)>>

(***************************************************************************)
(* repl.rs: one line of the REPL.  Repl::run builds the root environment   *)
(* with env::core() and hands every line to rep, which evaluates the form  *)
(* read from the line in that root environment.  `last` records the form   *)
(* and how its evaluation ended, `steps` counts the lines.  A panic ends   *)
(* the process: no line follows it.                                        *)
(***************************************************************************)
MaxLines == 3

RootEnv == 1

Init ==
    /\ st = [envs |-> <<EnvData(core, NoEnv)>>, borrowed |-> {}, atoms |-> <<>>, held |-> {},
             out |-> <<>>]
    /\ last = <<"start", new_nil, <<"Ok", new_nil>> >>
    /\ steps = 0

rep(form) ==
    /\ steps < MaxLines
    /\ last[3][1] # "Panic"
    /\ LET val == eval(form, RootEnv, st)
       IN  /\ st' = val.st
           /\ last' = <<"rep", form, <<val.tag, val.val>> >>
    /\ steps' = steps + 1

\* shorthands for writing forms
Sym(name) == new_symbol(name)

Num(n) == new_number(n)

Lst(seq) == new_list(seq)

Vec(seq) == new_vector(seq)

Def(name, expr) == Lst(<<Sym(DEFINE_FORM), Sym(name), expr>>)

Fn(params, body) == Lst(<<Sym(LAMBDA_FORM), Lst(params)>> \o body)

Let(bindings, body) == Lst(<<Sym(LET_FORM), Lst(bindings), body>>)

Quote(form) == Lst(<<Sym(QUOTE_FORM), form>>)

\* (def! x v) at the top level, inside a let*, inside a lambda call and
\* inside the expansion of the macro k, whose body is (eval '(def! x 1))
DefineInputs ==
    {Def("x", Num(1)), Def("x", Num(2)), Def("x", Sym("nope")),
     Let(<<Sym("a"), Num(1)>>, Def("x", Num(2))),
     Lst(<<Fn(<<>>, <<Def("x", Num(2))>>)>>),
     Lst(<<Sym(MACRO_FORM), Sym("k"),
           Fn(<<>>, <<Lst(<<Sym(EVAL_FORM), Quote(Def("x", Num(1)))>>)>>)>>),
     Lst(<<Sym("k")>>)}

\* (fn* () a), created at the top level or inside (let* (a 1) ...)
TheClosure == Fn(<<>>, <<Sym("a")>>)

ClosureDefs ==
    {Def("f", TheClosure), Def("f", Let(<<Sym("a"), Num(1)>>, TheClosure))}

\* f called from a let* frame and from a lambda's frame that bind a themselves
ClosureCalls ==
    {Let(<<Sym("a"), Num(3)>>, Lst(<<Sym("f")>>)),
     Lst(<<Fn(<<Sym("a")>>, <<Lst(<<Sym("f")>>)>>), Num(3)>>)}

ClosureInputs == ClosureDefs \cup ClosureCalls \cup {Def("a", Num(2))}

\* heads that fail, applied to an operand that fails too or has an effect
FailingHeads == {Sym("nope"), Lst(<<Sym("throw"), Num(1)>>)}

FailingTail == Lst(<<Sym("throw"), Num(2)>>)

OrderInputs ==
    {Lst(<<h, FailingTail>>) : h \in FailingHeads}
        \cup {Lst(<<Sym("nope"), Def("x", Num(1))>>),
              Lst(<<Sym("list"), Def("x", Num(2)), Sym("x")>>)}

\* (defmacro! m (fn* (a) (list 'quote a))): (m form) expands to (quote form)
QuotingMacro == Fn(<<Sym("a")>>, <<Lst(<<Sym("list"), Quote(Sym(QUOTE_FORM)), Sym("a")>>)>>)

MacroOperands == {Num(5), Sym("nope"), Def("x", Num(1))}

MacroInputs ==
    {Lst(<<Sym(MACRO_FORM), Sym("m"), QuotingMacro>>)}
        \cup {Lst(<<Sym("m"), o>>) : o \in MacroOperands}

\* (let* (a e b a c [a b]) c) and let* forms with a binding that fails
LetSeq(e) ==
    Let(<<Sym("a"), e, Sym("b"), Sym("a"), Sym("c"), Vec(<<Sym("a"), Sym("b")>>)>>, Sym("c"))

LetFirsts == {Num(1), Sym("x")}

FailingExprs == {Sym("nope"), Lst(<<Sym("throw"), Num(1)>>)}

LetInputs ==
    {LetSeq(e) : e \in LetFirsts}
        \cup {Let(<<Sym("a"), e>>, Num(5)) : e \in FailingExprs}

\* (do e 2) and ((fn* () e 2))
SequenceInputs ==
    {Lst(<<Sym(SEQUENCE_FORM), e, Num(2)>>) : e \in FailingExprs \cup {Num(1)}}
        \cup {Lst(<<Fn(<<>>, <<e, Num(2)>>)>>) : e \in FailingExprs}

Inputs ==
    DefineInputs \cup ClosureInputs \cup OrderInputs \cup MacroInputs
        \cup LetInputs \cup SequenceInputs

Next == \E form \in Inputs : rep(form)

Spec == Init /\ [][Next]_vars

\* the form of the line just evaluated and how its evaluation ended
LastForm == last[2]

LastResult == last[3]

\* the error a failing expression of the inputs raises
ErrorOf(e) ==
    IF IsSymbol(e) THEN <<"Err", MissingSymbol(Payload(e))>>
    ELSE <<"Err", Exception(Payload(e)[2])>>

\* C3: a call of f = (fn* () a) answers what `a` resolves to from the frame
\* that was current when the fn* form was evaluated (the root, or the frame
\* of the let* around it, which has returned by then), whatever the caller's
\* frames bind `a` to, and the frame made for the call has that frame as its
\* outer.
C3_LexicalCapture ==
    [][/\ last'[2] \in ClosureCalls /\ IsOk(EnvGet(st, RootEnv, "f")) =>
            LET f == EnvGet(st, RootEnv, "f").val
            IN  /\ last'[3] = Resolves(st, LambdaEnv(f), "a")
                /\ Len(st'.envs) = Len(st.envs) + 2
                /\ st'.envs[Len(st'.envs)].outer = LambdaEnv(f)
       /\ last'[2] = Def("f", TheClosure) =>
            LambdaEnv(EnvGet(st', RootEnv, "f").val) = RootEnv
       /\ last'[2] = Def("f", Let(<<Sym("a"), Num(1)>>, TheClosure)) =>
            /\ LambdaEnv(EnvGet(st', RootEnv, "f").val) = Len(st.envs) + 1
            /\ st'.envs[Len(st.envs) + 1] = EnvData("a" :> Num(1), RootEnv)]_vars

\* C3 witness: f was made inside (let* (a 1) ...), the root binds a to 2,
\* the caller's frame binds a to 3, and the call answered 1.
C3_Witness ==
    /\ LastForm \in ClosureCalls
    /\ IsOk(EnvGet(st, RootEnv, "f"))
    /\ LambdaEnv(EnvGet(st, RootEnv, "f").val) # RootEnv
    /\ Resolves(st, RootEnv, "a") = <<"Ok", Num(2)>>
    /\ LastResult = <<"Ok", Num(1)>>

\* C4: in an application whose head and operand both fail, the error of the
\* head is the one reported, since the head is evaluated first.
C4_HeadErrorFirst ==
    \A h \in FailingHeads :
        LastForm = Lst(<<h, FailingTail>>) => LastResult = ErrorOf(h)

\* m is bound at the root to the macro made from QuotingMacro
QuotingMacroBound(s) ==
    /\ IsOk(EnvGet(s, RootEnv, "m"))
    /\ IsLambda(EnvGet(s, RootEnv, "m").val)
    /\ LambdaIsMacro(EnvGet(s, RootEnv, "m").val)

\* C5: (m operand), with m the macro that expands to (quote operand), answers
\* the operand form itself: the operand is handed to the macro unevaluated.
C5_OperandsUnevaluated ==
    \A o \in MacroOperands :
        LastForm = Lst(<<Sym("m"), o>>) /\ QuotingMacroBound(st) =>
            LastResult = <<"Ok", o>>

\* k is bound at the root to the macro whose body is (eval '(def! x 1))
DefiningMacroBound(s) ==
    /\ IsOk(EnvGet(s, RootEnv, "k"))
    /\ IsLambda(EnvGet(s, RootEnv, "k").val)
    /\ LambdaIsMacro(EnvGet(s, RootEnv, "k").val)

\* (def! x v) outside a macro expansion, as one step of the REPL: it answers
\* v and binds x in the current frame only (the root, the frame of the let*,
\* the frame of the call), every older frame staying as it was; when the
\* expression fails nothing changes and the error is the answer.
DefineOutsideExpansion ==
    /\ \A v \in {1, 2} : last'[2] = Def("x", Num(v)) =>
           /\ last'[3] = <<"Ok", Num(v)>>
           /\ st' = EnvSet(st, RootEnv, "x", Num(v))
    /\ last'[2] = Let(<<Sym("a"), Num(1)>>, Def("x", Num(2))) =>
           /\ last'[3] = <<"Ok", Num(2)>>
           /\ st'.envs = Append(st.envs,
                                EnvData(("a" :> Num(1)) @@ ("x" :> Num(2)), RootEnv))
    /\ last'[2] = Lst(<<Fn(<<>>, <<Def("x", Num(2))>>)>>) =>
           /\ last'[3] = <<"Ok", Num(2)>>
           /\ st'.envs = Append(st.envs, EnvData("x" :> Num(2), RootEnv))
    /\ last'[2] = Def("x", Sym("nope")) =>
           /\ last'[3] = <<"Err", MissingSymbol("nope")>>
           /\ st' = st

\* the def! that runs inside a macro expansion: (k) evaluates (def! x 1) in
\* the root, so x is bound to 1 there and (k), which expands to that value,
\* answers 1.
DefineInsideExpansion ==
    last'[2] = Lst(<<Sym("k")>>) /\ DefiningMacroBound(st) =>
        /\ last'[3] = <<"Ok", Num(1)>>
        /\ Resolves(st', RootEnv, "x") = <<"Ok", Num(1)>>

\* def! does what C6 says wherever no macro expansion is under way.
DefineHoldsOutsideExpansion == [][DefineOutsideExpansion]_vars

\* C6: (def! name expr) evaluates expr in the current environment, binds
\* name to the result in the current frame only and answers it, and changes
\* nothing when expr fails: at the top level, in a let*, in a lambda call
\* and in a macro expansion.
C6_Define == [][DefineOutsideExpansion /\ DefineInsideExpansion]_vars

\* what the first expression of LetSeq evaluates to at the root
ValueAtRoot(e, s) == IF IsSymbol(e) THEN Resolves(s, RootEnv, Payload(e)) ELSE <<"Ok", e>>

\* C7: (let* (a e b a c [a b]) c), with e evaluating to v in the enclosing
\* environment, answers [v v]: the second pair sees a, the third sees a and
\* b, the first sees the enclosing environment, and all three names are
\* bound in one new frame, a child of the current one, where the body runs.
C7_LetSequential ==
    [][\A e \in LetFirsts :
          last'[2] = LetSeq(e) /\ ValueAtRoot(e, st)[1] = "Ok" =>
              LET v == ValueAtRoot(e, st)[2]
              IN  /\ last'[3] = <<"Ok", Vec(<<v, v>>)>>
                  /\ st'.envs =
                        Append(st.envs,
                               EnvData(("a" :> v) @@ ("b" :> v) @@ ("c" :> Vec(<<v, v>>)),
                                       RootEnv))]_vars

\* C7 witness: the first pair's expression was x, bound to 2 at the root.
C7_Witness ==
    /\ LastForm = LetSeq(Sym("x"))
    /\ LastResult = <<"Ok", Vec(<<Num(2), Num(2)>>)>>
    /\ st.envs[Len(st.envs)].bindings["b"] = Num(2)

\* C8: (do e 2) and ((fn* () e 2)), with e failing, answer the error of e.
C8_SequenceError ==
    \A e \in FailingExprs :
        LastForm \in {Lst(<<Sym(SEQUENCE_FORM), e, Num(2)>>), Lst(<<Fn(<<>>, <<e, Num(2)>>)>>)}
            => LastResult = ErrorOf(e)

\* C9: (let* (a e) 5), with e failing, answers the error of e.
C9_LetBindingError ==
    \A e \in FailingExprs :
        LastForm = Let(<<Sym("a"), e>>, Num(5)) => LastResult = ErrorOf(e)

(***************************************************************************)
(* Lambda calls at the REPL: ((fn* (p1 ... pk [& r]) [p1 ... pk r]) 1 ... n) *)
(* for every parameter list of up to two fixed names with or without a     *)
(* rest parameter and every argument count up to MaxArgs.  The arguments   *)
(* are the numbers 1, 2, ..., so a name's value tells its position.        *)
(***************************************************************************)
MaxCalls == 2

MaxArgs == 3

FixedParams == {<<>>, <<"a">>, <<"a", "b">>}

ParamNames(fixed, rest) == IF rest THEN fixed \o <<"&", "r">> ELSE fixed

BodyNames(fixed, rest) == IF rest THEN Append(fixed, "r") ELSE fixed

Syms(names) == [i \in 1 .. Len(names) |-> Sym(names[i])]

Args(n) == [i \in 1 .. n |-> Num(i)]

CallForm(fixed, rest, n) ==
    Lst(<<Fn(Syms(ParamNames(fixed, rest)), <<Vec(Syms(BodyNames(fixed, rest)))>>)>>
            \o Args(n))

CallInputs ==
    {CallForm(fixed, rest, n) : fixed \in FixedParams, rest \in BOOLEAN, n \in 0 .. MaxArgs}

NextCall == \E form \in CallInputs : steps < MaxCalls /\ rep(form)

SpecCall == Init /\ [][NextCall]_vars

\* C10: a call with n >= k arguments of a lambda with the parameters
\* (p1 ... pk & r) makes one frame, a child of the lambda's frame, that binds
\* pi to the i-th argument and r to the list of the arguments k+1 .. n (the
\* empty list when n = k) and nothing else, so the body [p1 ... pk r] answers
\* those values; without `&`, k arguments bind p1 ... pk the same way.
C10_RestBinding ==
    \A fixed \in FixedParams, rest \in BOOLEAN, n \in 0 .. MaxArgs :
        LET k == Len(fixed)
            frame == st.envs[Len(st.envs)]
            extra == new_list([i \in 1 .. n - k |-> Num(k + i)])
        IN  LastForm = CallForm(fixed, rest, n) /\ (IF rest THEN n >= k ELSE n = k) =>
                /\ frame.outer = RootEnv
                /\ DOMAIN frame.bindings = {BodyNames(fixed, rest)[i] : i \in 1 .. Len(BodyNames(fixed, rest))}
                /\ \A i \in 1 .. k : frame.bindings[fixed[i]] = Num(i)
                /\ rest => frame.bindings["r"] = extra
                /\ LastResult =
                      <<"Ok", Vec(Args(k) \o (IF rest THEN <<extra>> ELSE <<>>))>>

\* C10 witness: (a & r) was called with three arguments and then with one.
C10_Witness ==
    /\ steps = 2
    /\ LastForm = CallForm(<<"a">>, TRUE, 1)
    /\ LastResult = <<"Ok", Vec(<<Num(1), new_list(<<>>)>>)>>
    /\ st.envs[2].bindings = ("a" :> Num(1)) @@ ("r" :> new_list(<<Num(2), Num(3)>>))

\* C11: a call with fewer arguments than fixed parameters, or without `&`
\* with a number of arguments other than k, answers a WrongArity error.
C11_ArityMismatch ==
    \A fixed \in FixedParams, rest \in BOOLEAN, n \in 0 .. MaxArgs :
        LastForm = CallForm(fixed, rest, n) /\ (n < Len(fixed) \/ (~rest /\ n # Len(fixed))) =>
            /\ LastResult[1] = "Err"
            /\ LastResult[2][1] = "WrongArity"

(***************************************************************************)
(* try*/catch* and applications of a non-callable at the REPL.             *)
(***************************************************************************)
Try(body, name, handler) ==
    Lst(<<Sym(TRY_FORM), body, Lst(<<Sym(CATCH_FORM), Sym(name), handler>>)>>)

\* heads that evaluate to a number, a string, nil, a list and an atom
NonCallableHeads ==
    {Num(1), new_string("s"), new_nil, Quote(Lst(<<Num(1)>>)), Lst(<<Sym("atom"), Num(1)>>)}

NonCallableInputs ==
    {Lst(<<h, Num(2)>>) : h \in NonCallableHeads}
        \cup {Try(Lst(<<h, Num(2)>>), "e", Sym("e")) : h \in NonCallableHeads}

\* bodies that succeed, each with its value
GoodBodies ==
    {<<Num(7), Num(7)>>, <<Lst(<<Sym("+"), Num(1), Num(2)>>), Num(3)>>}

\* bodies that fail, one for every EvaluationError, each with the value the
\* handler is to receive
BadBodies ==
    {<<Lst(<<Sym("throw"), Num(5)>>), Num(5)>>,
     <<Lst(<<Sym("throw"), Quote(Lst(<<Num(1), Sym("a")>>))>>), Lst(<<Num(1), Sym("a")>>)>>,
     <<Sym("nope"), new_string("'nope' not found")>>,
     <<Lst(<<Sym("deref")>>), new_string("wrong arity")>>,
     <<Lst(<<Sym(QUASIQUOTE_FORM), Lst(<<Lst(<<Sym("unquote")>>), Num(1)>>)>>),
       new_string("bad arguments to fn")>>,
     <<Lst(<<Sym("+"), Num(1)>>), new_string("not enough args to op")>>}

\* (try* b (catch* e [e])) and (let* (a 1) (try* b (catch* e [e a])))
TryTop(b) == Try(b, "e", Vec(<<Sym("e")>>))

TryInLet(b) == Let(<<Sym("a"), Num(1)>>, Try(b, "e", Vec(<<Sym("e"), Sym("a")>>)))

\* an inner try* around the throw, whose handler answers or throws again
TryInner == Try(Try(Lst(<<Sym("throw"), Num(1)>>), "e", Vec(<<Num(1), Sym("e")>>)),
                "e", Vec(<<Num(2), Sym("e")>>))

TryRethrow == Try(Try(Lst(<<Sym("throw"), Num(1)>>), "e", Lst(<<Sym("throw"), Vec(<<Sym("e")>>)>>)),
                  "e", Vec(<<Num(2), Sym("e")>>))

TryInputs ==
    {TryTop(b[1]) : b \in GoodBodies \cup BadBodies}
        \cup {TryInLet(b[1]) : b \in GoodBodies \cup BadBodies}
        \cup {TryInner, TryRethrow}

MaxTryLines == 2

NextTry == \E form \in NonCallableInputs \cup TryInputs : steps < MaxTryLines /\ rep(form)

SpecTry == Init /\ [][NextTry]_vars

\* C12: (h 2) with h evaluating to a number, a string, nil, a list or an
\* atom answers a BadArguments error, and around it try* runs its handler,
\* which receives the string for BadArguments.
C12_NonCallable ==
    \A h \in NonCallableHeads :
        /\ LastForm = Lst(<<h, Num(2)>>) =>
               LastResult[1] = "Err" /\ LastResult[2][1] = "BadArguments"
        /\ LastForm = Try(Lst(<<h, Num(2)>>), "e", Sym("e")) =>
               LastResult = <<"Ok", new_string("bad arguments to fn")>>

\* C13: try* answers the value of a body that succeeds and leaves the state
\* alone (no handler frame); for a body that fails it runs the handler in
\* one new frame, a child of the current one, that binds e to the thrown
\* value or to the string of the error; an inner try* catches before an
\* outer one, which catches what the inner handler throws.
C13_TryCatch ==
    [][/\ \A b \in GoodBodies :
              /\ last'[2] = TryTop(b[1]) => last'[3] = <<"Ok", b[2]>> /\ st' = st
              /\ last'[2] = TryInLet(b[1]) =>
                     /\ last'[3] = <<"Ok", b[2]>>
                     /\ st'.envs = Append(st.envs, EnvData("a" :> Num(1), RootEnv))
       /\ \A b \in BadBodies :
              /\ last'[2] = TryTop(b[1]) =>
                     /\ last'[3] = <<"Ok", Vec(<<b[2]>>)>>
                     /\ st'.envs = Append(st.envs, EnvData("e" :> b[2], RootEnv))
              /\ last'[2] = TryInLet(b[1]) =>
                     /\ last'[3] = <<"Ok", Vec(<<b[2], Num(1)>>)>>
                     /\ st'.envs = st.envs \o <<EnvData("a" :> Num(1), RootEnv),
                                                EnvData("e" :> b[2], Len(st.envs) + 1)>>
       /\ last'[2] = TryInner => last'[3] = <<"Ok", Vec(<<Num(1), Num(1)>>)>>
       /\ last'[2] = TryRethrow => last'[3] = <<"Ok", Vec(<<Num(2), Vec(<<Num(1)>>)>>)>>]_vars

\* C13 witness: inside a let*, the body failed with BadArguments and the
\* handler, run in a child of the let* frame, answered the string and a.
C13_Witness ==
    /\ LastForm = TryInLet(Lst(<<Sym(QUASIQUOTE_FORM), Lst(<<Lst(<<Sym("unquote")>>), Num(1)>>)>>))
    /\ LastResult = <<"Ok", Vec(<<new_string("bad arguments to fn"), Num(1)>>)>>
    /\ st.envs[Len(st.envs)].outer = Len(st.envs) - 1

(***************************************************************************)
(* The eval special form inside let* and lambda frames.                    *)
(***************************************************************************)
Eval(form) == Lst(<<Sym(EVAL_FORM), form>>)

\* (eval '(def! y v)) one let* deep, and two deep: a lambda call in a let*
EvalDefInLet == Let(<<Sym("a"), Num(1)>>, Eval(Quote(Def("y", Num(2)))))

EvalDefInCall ==
    Let(<<Sym("a"), Num(1)>>,
        Lst(<<Fn(<<Sym("b")>>, <<Eval(Quote(Def("y", Num(3))))>>), Num(5)>>))

\* (eval 'a) where only the enclosing let* or lambda frame binds a
EvalLocalInLet == Let(<<Sym("a"), Num(1)>>, Eval(Quote(Sym("a"))))

EvalLocalInCall == Lst(<<Fn(<<Sym("a")>>, <<Eval(Quote(Sym("a")))>>), Num(1)>>)

\* (let* (a 'y) (eval a)): the argument a is evaluated in the let* frame
EvalArgInLet == Let(<<Sym("a"), Quote(Sym("y"))>>, Eval(Sym("a")))

\* the macro k whose body is (eval '(def! y 1)), called at the top level
DefiningMacro ==
    Lst(<<Sym(MACRO_FORM), Sym("k"),
          Fn(<<>>, <<Eval(Quote(Def("y", Num(1))))>>)>>)

EvalInputs ==
    {EvalDefInLet, EvalDefInCall, EvalLocalInLet, EvalLocalInCall, EvalArgInLet,
     Def("a", Num(9)), Sym("y"), DefiningMacro, Lst(<<Sym("k")>>)}

NextEval == \E form \in EvalInputs : rep(form)

SpecEval == Init /\ [][NextEval]_vars

\* eval outside a macro expansion, as one step of the REPL: the def! it runs
\* binds y in the root and in no other frame, the let* and call frames
\* holding their own names only, and y stays visible at the root; (eval 'a)
\* answers what a resolves to at the root, whatever the let* or lambda frame
\* binds a to; (eval a) first evaluates a in the let* frame.
EvalOutsideExpansion ==
    /\ last'[2] = EvalDefInLet =>
           /\ last'[3] = <<"Ok", Num(2)>>
           /\ st'.envs = Append(EnvSet(st, RootEnv, "y", Num(2)).envs,
                                EnvData("a" :> Num(1), RootEnv))
    /\ last'[2] = EvalDefInCall =>
           /\ last'[3] = <<"Ok", Num(3)>>
           /\ st'.envs = EnvSet(st, RootEnv, "y", Num(3)).envs
                             \o <<EnvData("a" :> Num(1), RootEnv),
                                  EnvData("b" :> Num(5), Len(st.envs) + 1)>>
    /\ last'[2] \in {EvalLocalInLet, EvalLocalInCall} =>
           last'[3] = Resolves(st, RootEnv, "a")
    /\ last'[2] = EvalArgInLet => last'[3] = Resolves(st, RootEnv, "y")
    /\ last'[2] = Sym("y") => last'[3] = Resolves(st, RootEnv, "y")

\* the eval that runs inside the expansion of (k): its def! binds y to 1 in
\* the root and (k) answers 1.
EvalInsideExpansion ==
    last'[2] = Lst(<<Sym("k")>>) /\ DefiningMacroBound(st) =>
        /\ last'[3] = <<"Ok", Num(1)>>
        /\ Resolves(st', RootEnv, "y") = <<"Ok", Num(1)>>

\* eval does what C14 says wherever no macro expansion is under way.
EvalHoldsOutsideExpansion == [][EvalOutsideExpansion]_vars

\* C14: (eval x) evaluates x in the current environment and the result in
\* the root, at any depth of let*, lambda and macro frames: a def! it runs
\* binds in the root and stays visible, and names of the enclosing frames
\* are not visible to it.
C14_EvalInRoot == [][EvalOutsideExpansion /\ EvalInsideExpansion]_vars

(***************************************************************************)
(* Atoms at the REPL.  One line binds a and b to two new atoms, c to the   *)
(* atom of a, g to a closure over a and l to a list that holds the atom of *)
(* a; the other lines read and update the atoms.                           *)
(***************************************************************************)
MaxAtomLines == 3

Call(name, args) == Lst(<<Sym(name)>> \o args)

AtomSetup ==
    Lst(<<Sym(SEQUENCE_FORM),
          Def("a", Call("atom", <<Num(0)>>)),
          Def("b", Call("atom", <<Num(10)>>)),
          Def("c", Sym("a")),
          Def("g", Fn(<<>>, <<Call("deref", <<Sym("a")>>)>>)),
          Def("l", Call("list", <<Sym("a")>>))>>)

\* reads of the atom of a: by its name, by the name c, through the closure
\* g and out of the list l
DerefA ==
    {Call("deref", <<Sym("a")>>), Call("deref", <<Sym("c")>>), Lst(<<Sym("g")>>),
     Call("deref", <<Call("first", <<Sym("l")>>)>>)}

DerefB == Call("deref", <<Sym("b")>>)

ResetA == Call("reset!", <<Sym("a"), Num(5)>>)

ResetB == Call("reset!", <<Sym("b"), Num(6)>>)

\* (swap! a + 1 2) and (swap! a (fn* (v x) [v x]) 3)
SwapHost == Call("swap!", <<Sym("a"), Sym("+"), Num(1), Num(2)>>)

SwapLambda ==
    Call("swap!", <<Sym("a"), Fn(<<Sym("v"), Sym("x")>>, <<Vec(<<Sym("v"), Sym("x")>>)>>), Num(3)>>)

\* (swap! a (fn* (v) (throw [v]))) and (swap! b throw): f answers an error
SwapLambdaFails ==
    Call("swap!", <<Sym("a"), Fn(<<Sym("v")>>, <<Call("throw", <<Vec(<<Sym("v")>>)>>)>>)>>)

SwapHostFails == Call("swap!", <<Sym("b"), Sym("throw")>>)

\* (swap! a (fn* (v) (deref a))): f reads the atom it is swapping
SwapReads == Call("swap!", <<Sym("a"), Fn(<<Sym("v")>>, <<Call("deref", <<Sym("a")>>)>>)>>)

AtomInputs ==
    {AtomSetup, DerefB, ResetA, ResetB, SwapHost, SwapLambda, SwapLambdaFails,
     SwapHostFails, SwapReads} \cup DerefA

NextAtom == \E form \in AtomInputs : steps < MaxAtomLines /\ rep(form)

SpecAtom == Init /\ [][NextAtom]_vars

\* the setup line has run: a names an atom and c, l and g reach the same one
AtomsBound(s) ==
    /\ \A n \in {"a", "b", "c", "g", "l"} : Resolves(s, RootEnv, n)[1] = "Ok"
    /\ Tag(Resolves(s, RootEnv, "a")[2]) = "Atom"
    /\ Tag(Resolves(s, RootEnv, "b")[2]) = "Atom"

\* the cell a name refers to
AtomOf(s, n) == Payload(Resolves(s, RootEnv, n)[2])

ValueOf(s, n) == s.atoms[AtomOf(s, n)]

\* f(v, x1 ... xn) for the two swap! lines whose f succeeds
SwapValue(form, v) ==
    IF form = SwapHost THEN add(<<v, Num(1), Num(2)>>, st).val ELSE Vec(<<v, Num(3)>>)

\* swap! with an f that leaves the atom alone, as one step of the REPL: it
\* answers f(v, x1 ... xn), the atom holds that value afterwards and a deref
\* answers it; when f answers an error, that error is the answer and the
\* atom holds v as before.
SwapPlain ==
    AtomsBound(st) =>
        /\ \A form \in {SwapHost, SwapLambda} : last'[2] = form =>
               /\ last'[3] = <<"Ok", SwapValue(form, ValueOf(st, "a"))>>
               /\ st'.atoms = [st.atoms EXCEPT ![AtomOf(st, "a")] = last'[3][2]]
               /\ deref(<<Resolves(st', RootEnv, "a")[2]>>, st').val = last'[3][2]
        /\ last'[2] = SwapLambdaFails =>
               /\ last'[3] = <<"Err", Exception(Vec(<<ValueOf(st, "a")>>))>>
               /\ st'.atoms = st.atoms
        /\ last'[2] = SwapHostFails =>
               /\ last'[3] = <<"Err", Exception(ValueOf(st, "b"))>>
               /\ st'.atoms = st.atoms

\* swap! with an f that reads the atom: f(v) is v, so swap! answers v and
\* the atom holds v.
SwapReading ==
    AtomsBound(st) /\ last'[2] = SwapReads =>
        /\ last'[3] = <<"Ok", ValueOf(st, "a")>>
        /\ st'.atoms = st.atoms

\* swap! does what C15 says when f does not touch the atom.
SwapHoldsWithoutReentry == [][SwapPlain]_vars

\* C15: (swap! a f x1 ... xn) on an atom holding v answers f(v, x1 ... xn)
\* and stores it, so that a deref answers it too; when f answers an error
\* the atom still holds v and the error is the answer.
C15_Swap == [][SwapPlain /\ SwapReading]_vars

\* C16: the setup line makes two cells, a, c, g and l reaching the first
\* and b the second.  From then on every read of the first cell, by a, by
\* c, through the closure g and out of the list l, answers what the cell
\* holds and changes no cell; reset! answers its value and stores it in its
\* own cell only; a swap! that succeeds stores in its own cell only and one
\* that fails changes no cell.  So a read answers the value of the latest
\* reset! or swap! that succeeded on that atom, or the initial value.
C16_AtomCell ==
    [][/\ last'[2] = AtomSetup /\ last'[3][1] = "Ok" =>
              /\ st'.atoms = st.atoms \o <<Num(0), Num(10)>>
              /\ AtomsBound(st')
              /\ AtomOf(st', "a") = Len(st.atoms) + 1
              /\ AtomOf(st', "b") = Len(st.atoms) + 2
              /\ Resolves(st', RootEnv, "c")[2] = Resolves(st', RootEnv, "a")[2]
              /\ Resolves(st', RootEnv, "l")[2] = new_list(<<Resolves(st', RootEnv, "a")[2]>>)
       /\ AtomsBound(st) =>
              /\ last'[2] \in DerefA =>
                     last'[3] = <<"Ok", ValueOf(st, "a")>> /\ st'.atoms = st.atoms
              /\ last'[2] = DerefB =>
                     last'[3] = <<"Ok", ValueOf(st, "b")>> /\ st'.atoms = st.atoms
              /\ last'[2] = ResetA =>
                     /\ last'[3] = <<"Ok", Num(5)>>
                     /\ st'.atoms = [st.atoms EXCEPT ![AtomOf(st, "a")] = Num(5)]
              /\ last'[2] = ResetB =>
                     /\ last'[3] = <<"Ok", Num(6)>>
                     /\ st'.atoms = [st.atoms EXCEPT ![AtomOf(st, "b")] = Num(6)]
              /\ last'[2] \in {SwapHost, SwapLambda} /\ last'[3][1] = "Ok" =>
                     st'.atoms = [st.atoms EXCEPT ![AtomOf(st, "a")] = last'[3][2]]
              /\ last'[2] \in {SwapLambdaFails, SwapHostFails} /\ last'[3][1] = "Err" =>
                     st'.atoms = st.atoms]_vars

\* C16 witness: after the setup line and (reset! a 5), a read of the atom
\* through the closure g answered 5 while b still holds 10.
C16_Witness ==
    /\ LastForm = Lst(<<Sym("g")>>)
    /\ LastResult = <<"Ok", Num(5)>>
    /\ AtomsBound(st)
    /\ ValueOf(st, "b") = Num(10)

(***************************************************************************)
(* quasiquote at the REPL: (quasiquote v) for literal forms v, built from  *)
(* leaves and lists and vectors of up to MaxQuasiLen elements, nested one  *)
(* level, and for forms with unquote and splice-unquote.  No line changes  *)
(* the interpreter state: the expansions call cons and concat only.        *)
(***************************************************************************)
MaxQuasiLen == 2

MaxQuasiLines == 1

Quasi(v) == Lst(<<Sym(QUASIQUOTE_FORM), v>>)

Unquote(y) == Lst(<<Sym("unquote"), y>>)

SpliceUnquote(y) == Lst(<<Sym("splice-unquote"), y>>)

SeqsOver(S) == UNION {[1 .. k -> S] : k \in 0 .. MaxQuasiLen}

Leaves ==
    {Num(1), Sym("a"), new_string("s"), new_keyword("k"), new_nil, new_boolean(TRUE)}

FlatLeaves == {Num(1), Sym("a"), new_keyword("k"), new_nil}

Flat == {new_list(q) : q \in SeqsOver(FlatLeaves)} \cup {new_vector(q) : q \in SeqsOver(FlatLeaves)}

Inner ==
    {new_list(<<>>), new_list(<<Sym("a")>>), new_vector(<<Num(1)>>), new_vector(<<>>),
     new_string("s")}

Nested == {new_list(q) : q \in SeqsOver(Inner)} \cup {new_vector(q) : q \in SeqsOver(Inner)}

Literals == Leaves \cup Flat \cup Nested

\* `(1 ~(+ 1 1) ~@(list 3 4))
QuasiExample ==
    Lst(<<Num(1), Unquote(Call("+", <<Num(1), Num(1)>>)),
          SpliceUnquote(Call("list", <<Num(3), Num(4)>>))>>)

\* forms whose expansion fails in a sub-form: (unquote) has no operand
QuasiFailing ==
    {Lst(<<Sym("unquote")>>), Lst(<<Lst(<<Sym("unquote")>>), Num(1)>>),
     Lst(<<Num(1), Lst(<<Sym("unquote")>>)>>)}

QuasiForms ==
    {QuasiExample, Num(1), Sym("a"), Lst(<<>>), Vec(<<>>),
     Unquote(Call("+", <<Num(1), Num(1)>>)),
     Lst(<<SpliceUnquote(Call("list", <<Num(3), Num(4)>>)), Num(5)>>),
     Lst(<<Num(1), Unquote(Sym("nope"))>>),
     Lst(<<Lst(<<Num(1)>>), Num(2)>>),
     Lst(<<Vec(<<Num(1)>>), Num(2)>>),
     Vec(<<Num(1), Unquote(Call("+", <<Num(1), Num(1)>>))>>)}
        \cup QuasiFailing

QuasiInputs == {Quasi(v) : v \in Literals \cup QuasiForms}

NextQuasi == \E form \in QuasiInputs : steps < MaxQuasiLines /\ rep(form)

SpecQuasi == Init /\ [][NextQuasi]_vars

\* v holds a non-empty vector somewhere (v itself or an element)
RECURSIVE HasVector(_)
HasVector(v) ==
    /\ IsSeqValue(v)
    /\ \/ Tag(v) = "Vector" /\ Payload(v) # <<>>
       \/ \E i \in 1 .. Len(Payload(v)) : HasVector(Payload(v)[i])

\* quasiquote answers v itself for a literal v without a non-empty vector.
QuasiIdentityWithoutVectors ==
    \A v \in Literals : LastForm = Quasi(v) /\ ~HasVector(v) => LastResult = <<"Ok", v>>

\* C17: (quasiquote v) answers v for every literal v, a vector in v staying
\* a vector of the same elements.
C17_QuasiquoteIdentity ==
    \A v \in Literals : LastForm = Quasi(v) => LastResult = <<"Ok", v>>

\* the expansion the rules give for x, <<"Ok", form>>, or <<"Err", error>>
\* when a sub-form fails: (quote x) for x that is no non-empty list or
\* vector, y for (unquote y), (concat y rest') when the first element is
\* (splice-unquote y), else (cons head' tail')
RECURSIVE RuleExpansion(_)
RuleExpansion(x) ==
    IF ~(IsSeqValue(x) /\ Payload(x) # <<>>) THEN <<"Ok", Quote(x)>>
    ELSE LET elems == Payload(x)
             tail == RuleExpansion(new_list(Tail(elems)))
             head == RuleExpansion(elems[1])
         IN  CASE elems[1] = Sym("unquote") ->
                    IF Len(elems) >= 2 THEN <<"Ok", elems[2]>>
                    ELSE <<"Err", WrongArity(x)>>
               [] /\ Tag(elems[1]) = "List"
                  /\ Len(Payload(elems[1])) = 2
                  /\ Payload(elems[1])[1] = Sym("splice-unquote") ->
                    IF tail[1] = "Err" THEN tail
                    ELSE <<"Ok", Call("concat", <<Payload(elems[1])[2], tail[2]>>)>>
               [] OTHER ->
                    IF head[1] = "Err" THEN head
                    ELSE IF tail[1] = "Err" THEN tail
                    ELSE <<"Ok", Call("cons", <<head[2], tail[2]>>)>>

\* what eval_quasiquote_for answers for x
CodeExpansion(x) ==
    LET got == eval_quasiquote_for(x, RootEnv, st) IN <<got.tag, got.val>>

\* x holds a non-empty vector or the operand-less (unquote) as the first
\* element of some list in it
RECURSIVE HasNestedHead(_)
HasNestedHead(x) ==
    /\ IsSeqValue(x)
    /\ Payload(x) # <<>>
    /\ \/ HasVector(Payload(x)[1])
       \/ Payload(x)[1] = Lst(<<Sym("unquote")>>)
       \/ \E i \in 1 .. Len(Payload(x)) : HasNestedHead(Payload(x)[i])
       \/ HasNestedHead(new_list(Tail(Payload(x))))

\* the rules give the code's expansion for every x in which no list starts
\* with a non-empty vector or with a failing form.
QuasiRulesOnPlainHeads ==
    \A x \in QuasiForms \cup Literals :
        LastForm = Quasi(x) /\ ~HasNestedHead(x) => CodeExpansion(x) = RuleExpansion(x)

\* C18: the expansion of x is the one the rules give, a failure in a
\* sub-form being that failure, and `(1 ~(+ 1 1) ~@(list 3 4)) answers
\* (1 2 3 4).
C18_QuasiquoteRules ==
    /\ \A x \in QuasiForms : LastForm = Quasi(x) => CodeExpansion(x) = RuleExpansion(x)
    /\ LastForm = Quasi(QuasiExample) =>
           LastResult = <<"Ok", Lst(<<Num(1), Num(2), Num(3), Num(4)>>)>>

(***************************************************************************)
(* Macros at the REPL: defmacro! at the top level and inside a let*, with  *)
(* a lambda made on the spot or made elsewhere, and (macroexpand x).       *)
(***************************************************************************)
MaxMacroLines == 3

Defmacro(name, expr) == Lst(<<Sym(MACRO_FORM), Sym(name), expr>>)

Macroexpand(x) == Lst(<<Sym(MACROEXPAND_FORM), x>>)

\* one expands to 7, two expands to (one), bad fails, g is no macro
DefOne == Defmacro("one", Fn(<<>>, <<Num(7)>>))

DefTwo == Defmacro("two", Fn(<<>>, <<Quote(Lst(<<Sym("one")>>))>>))

DefBad == Defmacro("bad", Fn(<<>>, <<Call("throw", <<Num(1)>>)>>))

DefG == Def("g", Fn(<<>>, <<Num(7)>>))

ExpandForms ==
    {Lst(<<Sym("one")>>), Lst(<<Sym("two")>>), Lst(<<Sym("bad")>>), Lst(<<Sym("g")>>),
     Num(5), Call("list", <<Lst(<<Sym("one")>>)>>)}

\* defmacro! in a let* frame with a lambda made there, and with g, made at
\* the root; defmacro! at the root with a lambda made in a let* frame; and
\* defmacro! of a number
MacroInLet == Let(<<Sym("z"), Num(1)>>, Defmacro("n", Fn(<<>>, <<Num(7)>>)))

MacroInLetOfG == Let(<<Sym("z"), Num(1)>>, Defmacro("n", Sym("g")))

MacroOfLetLambda == Defmacro("h", Let(<<Sym("z"), Num(1)>>, Fn(<<>>, <<Sym("z")>>)))

MacroOfNumber == Defmacro("q", Num(5))

MacroLines ==
    {DefOne, DefTwo, DefBad, DefG, MacroInLet, MacroInLetOfG, MacroOfLetLambda,
     MacroOfNumber} \cup {Macroexpand(x) : x \in ExpandForms}

NextMacro == \E form \in MacroLines : steps < MaxMacroLines /\ rep(form)

SpecMacro == Init /\ [][NextMacro]_vars

\* C19: what (macroexpand x) answers is no macro call in the environment it
\* leaves, and macroexpand of it answers it again and changes nothing.
C19_MacroexpandIdempotent ==
    [][\A x \in ExpandForms :
          last'[2] = Macroexpand(x) /\ last'[3][1] = "Ok" =>
              /\ ~is_macro_call(last'[3][2], RootEnv, st')
              /\ macroexpand(last'[3][2], RootEnv, st') = Ok(last'[3][2], st')]_vars

\* C19 witness: two is bound to a macro and (macroexpand (two)) answered 7,
\* the expansion of (one), itself the expansion of (two).
C19_Witness ==
    /\ LastForm = Macroexpand(Lst(<<Sym("two")>>))
    /\ LastResult = <<"Ok", Num(7)>>
    /\ is_macro_call(Lst(<<Sym("two")>>), RootEnv, st)

\* the macro made from (fn* () body) evaluated in the frame env
MacroOf(body, env) == new_lambda(<<>>, <<body>>, env, TRUE)

\* defmacro! of a lambda made in the current frame, as one step of the
\* REPL: the name is bound there, and only there, to the lambda with
\* is_macro = true, which is the answer; defmacro! of a number answers an
\* error and changes nothing.
DefmacroOwnLambda ==
    /\ last'[2] = DefOne =>
           /\ last'[3] = <<"Ok", MacroOf(Num(7), RootEnv)>>
           /\ st' = EnvSet(st, RootEnv, "one", MacroOf(Num(7), RootEnv))
    /\ last'[2] = MacroInLet =>
           /\ last'[3] = <<"Ok", MacroOf(Num(7), Len(st.envs) + 1)>>
           /\ st'.envs = Append(st.envs,
                                EnvData(("z" :> Num(1))
                                            @@ ("n" :> MacroOf(Num(7), Len(st.envs) + 1)),
                                        RootEnv))
    /\ last'[2] = MacroOfNumber => last'[3][1] = "Err" /\ st' = st

\* defmacro! of a lambda made in another frame: in the let* frame with g
\* of the root, n is bound in the let* frame and the root stays as it was;
\* at the root with a lambda of a let* frame, h is bound at the root and
\* the let* frame holds z only.
DefmacroForeignLambda ==
    /\ last'[2] = MacroInLetOfG /\ Resolves(st, RootEnv, "g") = <<"Ok", new_lambda(<<>>, <<Num(7)>>, RootEnv, FALSE)>> =>
           st'.envs = Append(st.envs,
                             EnvData(("z" :> Num(1)) @@ ("n" :> MacroOf(Num(7), RootEnv)),
                                     RootEnv))
    /\ last'[2] = MacroOfLetLambda =>
           /\ Resolves(st', RootEnv, "h") = <<"Ok", MacroOf(Sym("z"), Len(st.envs) + 1)>>
           /\ st'.envs[Len(st.envs) + 1] = EnvData("z" :> Num(1), RootEnv)

\* defmacro! does what C20 says when the lambda was made in the current frame.
DefmacroHoldsForOwnLambda == [][DefmacroOwnLambda]_vars

\* C20: defmacro! binds the name in the frame in which the defmacro! form
\* is evaluated, wherever the lambda was made, to the lambda with is_macro
\* = true; for a value that is no lambda it answers an error and binds
\* nothing.
C20_Defmacro == [][DefmacroOwnLambda /\ DefmacroForeignLambda]_vars

(***************************************************************************)
(* reader.rs step by step: read(input) as a machine whose state is the     *)
(* Reader and the stack of the calls in progress, so that one step is one  *)
(* iteration of a loop of read_form or read_seq, or the return of a call.  *)
(* Here st holds the Reader, the stack and the result a call has just      *)
(* returned (None while a call runs); `last` records the call of read made *)
(* last and, once it has returned, its result; `steps` counts the calls    *)
(* that have returned.  A frame of the stack is a tuple: the function, and *)
(* for read_seq the kind of token that opened it, the forms collected and  *)
(* the position at which the iteration in progress began.                  *)
(***************************************************************************)
MaxReads == 1

ReaderInputs ==
    {"", " ", "1", "nil", ":k", "\"a\"", "x ;c", ";c", "1 2", ")",
     "(1 2)", "[1 2]", "{:a 1}", "{1 2}", "{:a}", "(1 [2] {\"a\" x})",
     "(1 2", "[1 2", "{:a 1", "(1 (2", "((1) 2", "(1 [2)",
     "(1 2]", "[1 2)", "{:a 1)", "(1 [2 3) 4]", "(1 2}",
     "'x", "~x", "~@x", "@a", "(')", "'", "^{:a 1} x", "^1", "^(1", "(^)",
     "(1 ", "[ ", "(1 \"a", "{:a (1 \"", "(1 ;c", "'(1 "}

FormFrame == <<"read_form">>

SeqFrame(kind, seq, start) == <<"read_seq", kind, seq, start>>

Top(stack) == stack[Len(stack)]

Pop(stack) == SubSeq(stack, 1, Len(stack) - 1)

Outcome(o) == <<o.tag, o.val>>

Idle == st.stack = <<>> /\ st.result = None

InitReader ==
    /\ st = [reader |-> Reader_new(<<>>), stack |-> <<>>, result |-> None]
    /\ last = <<"init", "", None>>
    /\ steps = 0

\* read: the tokenizer, Reader::new and the call of read_form
CallRead(input) ==
    /\ Idle
    /\ steps < MaxReads
    /\ st' = [reader |-> Reader_new(tokenizer(input)), stack |-> <<FormFrame>>, result |-> None]
    /\ last' = <<"call", input, None>>
    /\ UNCHANGED steps

\* One pass through `while let Some(token) = reader.peek()` of read_form.
\* A call in tail position (result = f(reader); break) replaces the frame.
ReadFormStep ==
    /\ st.stack # <<>>
    /\ Top(st.stack) = FormFrame
    /\ st.result = None
    /\ LET r == st.reader
           token == Reader_peek(r)
           rest == Pop(st.stack)
       IN  st' =
             IF token = None \/ IsClose(token)
             THEN [st EXCEPT !.stack = rest, !.result = <<"Err", CouldNotReadForm>>]
             ELSE IF token[1] = "Comment"
             THEN [st EXCEPT !.reader = Reader_next(r)]
             ELSE IF token[1] = "Atom"
             THEN IF token[2] \in DOMAIN ReaderMacros
                  THEN [st EXCEPT !.reader = Reader_next(r),
                                  !.stack = rest \o <<<<"macroexpand", ReaderMacros[token[2]]>>, FormFrame>>]
                  ELSE IF token[2] = "^"
                  THEN [st EXCEPT !.reader = Reader_next(r),
                                  !.stack = rest \o <<<<"meta">>, FormFrame>>]
                  ELSE IF token[2] = ""
                  THEN [st EXCEPT !.stack = rest, !.result = <<"Err", EmptyInput>>]
                  ELSE [st EXCEPT !.reader = read_atom(r).st,
                                  !.stack = rest,
                                  !.result = Outcome(read_atom(r))]
             ELSE [st EXCEPT !.reader = Reader_next(r),
                             !.stack = Append(rest, SeqFrame(token[1], <<>>, r.position + 1))]
    /\ UNCHANGED <<last, steps>>

\* What read_list, read_vector and read_map make of the forms of read_seq.
SeqValue(kind, seq) ==
    CASE kind = "List" -> <<"Ok", new_list(seq)>>
      [] kind = "Vector" -> <<"Ok", new_vector(seq)>>
      [] kind = "Map" ->
            IF new_map_from_seq(seq)[1] THEN <<"Ok", new_map_from_seq(seq)[2]>>
            ELSE <<"Err", ReaderMessage(Payload(new_map_from_seq(seq)[2]))>>

\* The head of `while let Some(token) = reader.peek()` of read_seq: the loop
\* ends, or an iteration begins with a call of read_form.
ReadSeqStep ==
    /\ st.stack # <<>>
    /\ Top(st.stack)[1] = "read_seq"
    /\ st.result = None
    /\ LET r == st.reader
           token == Reader_peek(r)
           frame == Top(st.stack)
           rest == Pop(st.stack)
       IN  st' =
             IF token = None
             THEN [st EXCEPT !.stack = rest,
                             !.result = <<"Err", ReaderMessage("did not close seq properly")>>]
             ELSE IF IsClose(token)
             THEN [st EXCEPT !.reader = Reader_next(r),
                             !.stack = rest,
                             !.result = SeqValue(frame[2], frame[3])]
             ELSE [st EXCEPT !.stack = rest \o <<SeqFrame(frame[2], frame[3], r.position), FormFrame>>]
    /\ UNCHANGED <<last, steps>>

\* The end of an iteration of read_seq: `if let Ok(form) = ... { seq.push(form) }`.
ReadSeqResume ==
    /\ st.stack # <<>>
    /\ Top(st.stack)[1] = "read_seq"
    /\ st.result # None
    /\ LET frame == Top(st.stack)
           seq == IF st.result[1] = "Ok" THEN Append(frame[3], st.result[2]) ELSE frame[3]
       IN  st' = [st EXCEPT !.stack = Append(Pop(st.stack), SeqFrame(frame[2], seq, frame[4])),
                            !.result = None]
    /\ UNCHANGED <<last, steps>>

\* macroexpand!, after its read_form has returned.
MacroResume ==
    /\ st.stack # <<>>
    /\ Top(st.stack)[1] = "macroexpand"
    /\ st.result # None
    /\ st' = [st EXCEPT !.stack = Pop(st.stack),
                        !.result = IF st.result[1] = "Ok"
                                   THEN <<"Ok", new_list(<<new_symbol(Top(st.stack)[2]), st.result[2]>>)>>
                                   ELSE <<"Err", CouldNotReadForm>>]
    /\ UNCHANGED <<last, steps>>

\* The "^" arm, after the read_form of the metadata has returned.
MetaResume ==
    /\ st.stack # <<>>
    /\ Top(st.stack)[1] = "meta"
    /\ st.result # None
    /\ st' = IF st.result[1] = "Ok"
             THEN [st EXCEPT !.stack = Pop(st.stack) \o <<<<"data", st.result[2]>>, FormFrame>>,
                             !.result = None]
             ELSE [st EXCEPT !.stack = Pop(st.stack)]
    /\ UNCHANGED <<last, steps>>

\* The "^" arm, after the read_form of the data has returned.
DataResume ==
    /\ st.stack # <<>>
    /\ Top(st.stack)[1] = "data"
    /\ st.result # None
    /\ st' = [st EXCEPT !.stack = Pop(st.stack),
                        !.result = IF st.result[1] = "Ok"
                                   THEN <<"Ok", new_list(<<new_symbol("with-meta"), st.result[2],
                                                           Top(st.stack)[2]>>)>>
                                   ELSE st.result]
    /\ UNCHANGED <<last, steps>>

\* read, after read_form has returned: the check for tokens left over.
ReturnRead ==
    /\ st.stack = <<>>
    /\ st.result # None
    /\ last' = <<"read", last[2],
                 IF Reader_is_empty(st.reader) THEN st.result
                 ELSE <<"Err", ExtraInput(st.reader.tokens, st.reader.position)>>>>
    /\ st' = [st EXCEPT !.result = None]
    /\ steps' = steps + 1

ReaderStep ==
    \/ ReadFormStep
    \/ ReadSeqStep
    \/ ReadSeqResume
    \/ MacroResume
    \/ MetaResume
    \/ DataResume
    \/ ReturnRead

NextReader == (\E input \in ReaderInputs : CallRead(input)) \/ ReaderStep

SpecReader == InitReader /\ [][NextReader]_vars

\* The reader runs in one thread and nothing suspends it: a call of read
\* that can take a step takes it.
FairSpecReader == SpecReader /\ WF_vars(ReaderStep)

ReadReturned == last[1] = "read"

\* The machine and the recursive read agree on every input read returns for.
ReaderAgreesWithRead ==
    ReadReturned => ~IsHang(read(last[2])) /\ last[3] = Outcome(read(last[2]))

\* The delimiters of a token sequence, matched with a stack of the kinds
\* opened: TRUE when a closing delimiter meets an opened one of another kind
\* (only when kinds is TRUE) or when the tokens end with one still open.
RECURSIVE Unmatched(_, _, _)
Unmatched(tokens, opened, kinds) ==
    IF tokens = <<>> THEN opened # <<>>
    ELSE LET token == Head(tokens)
         IN  IF token[1] \in {"Atom", "Comment"} THEN Unmatched(Tail(tokens), opened, kinds)
             ELSE IF token[2] = Open THEN Unmatched(Tail(tokens), Append(opened, token[1]), kinds)
             ELSE IF opened = <<>> THEN FALSE
             ELSE IF kinds /\ Top(opened) # token[1] THEN TRUE
             ELSE Unmatched(Tail(tokens), Pop(opened), kinds)

IsReaderMessage(outcome) == outcome[1] = "Err" /\ outcome[2][2] = "Message"

\* A sequence that is still open when the tokens end is a Message error,
\* whatever the kinds of the delimiters.
UnclosedIsMessage ==
    ReadReturned /\ Unmatched(tokenizer(last[2]), <<>>, FALSE) => IsReaderMessage(last[3])

\* C22: read of a token sequence in which an opened list, vector or map is
\* never closed, or is closed by a closing delimiter of another kind, returns
\* a Message reader error and no value.
C22_DelimiterErrors ==
    ReadReturned /\ Unmatched(tokenizer(last[2]), <<>>, TRUE) => IsReaderMessage(last[3])

\* read_form itself answers EmptyInput for the single empty atom token.
ReadFormEmptyInput ==
    /\ last[1] = "call"
    /\ st.reader.tokens = <<TokenAtom("")>>
    /\ st.stack = <<>>
    => st.result = <<"Err", EmptyInput>>

\* C23: read of an empty input, for which the tokenizer yields the single
\* empty atom token, returns the EmptyInput reader error.
C23_EmptyInput ==
    ReadReturned /\ tokenizer(last[2]) = <<TokenAtom("")>> => last[3] = <<"Err", EmptyInput>>

HasEmptyAtom(tokens) == \E i \in 1 .. Len(tokens) : tokens[i] = TokenAtom("")

\* Every call of read on tokens without an empty atom token returns.
ReadReturnsWithoutEmptyAtom ==
    (last[1] = "call" /\ ~HasEmptyAtom(st.reader.tokens)) ~> ReadReturned

\* An iteration of the loop of read_seq ends at a later position than it began.
ReadSeqAdvances ==
    st.stack # <<>> /\ Top(st.stack)[1] = "read_seq" /\ st.result # None
        => st.reader.position > Top(st.stack)[4]

\* C29: every call of read returns, a value or a ReaderError, after finitely
\* many steps, for every token sequence the tokenizer produces.
C29_ReaderTerminates == (last[1] = "call") ~> ReadReturned

(***************************************************************************)
(* Printing and reading back.  A value is read from an input text, or is a *)
(* string made of the characters double quote, backslash, newline and n;   *)
(* print turns it into a text and read turns the text into a value again.  *)
(* Here st holds the value, where it came from and its printed text, and   *)
(* `last` the step made last with the text it read or wrote.               *)
(***************************************************************************)
MaxStringLen == 3

MaxTextLen == 4

StringChars == {"\"", "\\", "\n", "n"}

RECURSIVE StringsOver(_, _)
StringsOver(chars, k) ==
    IF k = 0 THEN {""}
    ELSE StringsOver(chars, k - 1) \cup {c \o s : c \in chars, s \in StringsOver(chars, k - 1)}

\* Every text of up to MaxTextLen of the four characters between two double
\* quotes, and texts for the other kinds of value the reader makes.
PrintTexts ==
    {"\"" \o s \o "\"" : s \in StringsOver(StringChars, MaxTextLen)}
        \cup {"nil", "true", "false", "0", "7", "-12", "+5", ":k", ":", "x", "-", "\"a b\"", "\"\"",
              "()", "[]", "{}", "(1 [2 \"a\\\"b\"] :k nil)", "[x (y) \"\\n\"]",
              "{:a 1}", "{\"a\" (1 2)}", "{\"a\\nb\" \"c\"}", "'x", "~@(a b)", "^{:a 1} [x]", "@a"}

NoAtoms == [atoms |-> <<>>]

InitPrint ==
    /\ st = [value |-> new_nil, origin |-> "none", text |-> ""]
    /\ last = <<"init", "", None>>
    /\ steps = 0

\* reader::read on an input text; a text that is no form gives no value.
ReadInput(text) ==
    /\ last[1] = "init"
    /\ LET result == read(text)
       IN  /\ st' = [value |-> IF IsOk(result) THEN result.val ELSE new_nil,
                     origin |-> IF IsOk(result) THEN "read" ELSE "none",
                     text |-> ""]
           /\ last' = <<"read", text, Outcome(result)>>
    /\ steps' = steps + 1

\* types::new_string on a string that is given, not read.
MakeString(s) ==
    /\ last[1] = "init"
    /\ st' = [value |-> new_string(s), origin |-> "made", text |-> ""]
    /\ last' = <<"make", s, None>>
    /\ steps' = steps + 1

\* printer::print
PrintValue ==
    /\ last[1] \in {"read", "make"}
    /\ st.origin # "none"
    /\ st' = [st EXCEPT !.text = print(st.value, NoAtoms)]
    /\ last' = <<"print", print(st.value, NoAtoms), None>>
    /\ steps' = steps + 1

\* reader::read on the printed text
ReadBack ==
    /\ last[1] = "print"
    /\ last' = <<"readback", st.text, Outcome(read(st.text))>>
    /\ UNCHANGED st
    /\ steps' = steps + 1

NextPrint ==
    \/ \E text \in PrintTexts : ReadInput(text)
    \/ \E s \in StringsOver(StringChars, MaxStringLen) : MakeString(s)
    \/ PrintValue
    \/ ReadBack

SpecPrint == InitPrint /\ [][NextPrint]_vars

ReadBackDone == last[1] = "readback"

\* Every value that read has returned for an input text is read back from
\* its printed text.
RoundTripOfReadValues ==
    ReadBackDone /\ st.origin = "read" => last[3] = <<"Ok", st.value>>

\* No string read from a text holds a backslash directly before an n.
ReadStringsHaveNoBackslashN ==
    last[1] = "read" /\ st.origin = "read" /\ Tag(st.value) = "String"
        => \A i \in 1 .. Len(Payload(st.value)) - 1 :
              SubSeq(Payload(st.value), i, i + 1) # "\\n"

\* C21: for every value v the reader constructs, and for every string of
\* double quotes, backslashes, newlines and letters n in any order,
\* read(pr_str(v, readably = true)) returns a value equal to v.
C21_RoundTrip == ReadBackDone => last[3] = <<"Ok", st.value>>

(***************************************************************************)
(* Division at the REPL: (/ a b) and (/ a b c) for small numbers, zero     *)
(* among them, alone and as the body of a try*.                            *)
(***************************************************************************)
MaxDivLines == 1

DivNumbers == {0 - 7, 0 - 2, 0, 1, 2, 7}

DivArgs == {<<a, b>> : a, b \in DivNumbers} \cup {<<a, b, c>> : a \in {0 - 7, 7}, b, c \in {0 - 2, 0, 2}}

Div(args) == Call("/", [i \in 1 .. Len(args) |-> Num(args[i])])

DivInputs == {Div(args) : args \in DivArgs} \cup {TryTop(Div(args)) : args \in DivArgs}

NextDiv == \E form \in DivInputs : steps < MaxDivLines /\ rep(form)

SpecDiv == Init /\ [][NextDiv]_vars

HasZeroDivisor(args) == \E i \in 2 .. Len(args) : args[i] = 0

\* The quotient of integer division: a = q * b + r with r smaller than b in
\* size and of the sign of a.
Quotient(a, b) ==
    CHOOSE q \in (0 - 7) .. 7 :
        LET r == a - q * b
        IN  /\ (IF r < 0 THEN 0 - r ELSE r) < (IF b < 0 THEN 0 - b ELSE b)
            /\ (r = 0 \/ (r < 0) = (a < 0))

RECURSIVE QuotientFold(_, _)
QuotientFold(acc, rest) ==
    IF rest = <<>> THEN acc ELSE QuotientFold(Quotient(acc, Head(rest)), Tail(rest))

\* With no divisor 0 the result is the left fold of integer division, the
\* first argument the seed, with or without a try* around it.
DivFoldsNonzero ==
    \A args \in DivArgs :
        last[1] = "rep" /\ LastForm \in {Div(args), TryTop(Div(args))} /\ ~HasZeroDivisor(args)
            => LastResult = <<"Ok", Num(QuotientFold(Head(args), Tail(args)))>>

\* C26: (/ a b ...) with a divisor 0 returns an evaluation error as a value,
\* which try*/catch* catches; with nonzero divisors the result is the left
\* fold of integer division seeded with the first argument.
C26_Division ==
    \A args \in DivArgs :
        /\ last[1] = "rep" /\ LastForm = Div(args) =>
              IF HasZeroDivisor(args) THEN LastResult[1] = "Err"
              ELSE LastResult = <<"Ok", Num(QuotientFold(Head(args), Tail(args)))>>
        /\ last[1] = "rep" /\ LastForm = TryTop(Div(args)) =>
              IF HasZeroDivisor(args) THEN LastResult[1] = "Ok"
              ELSE LastResult = <<"Ok", Num(QuotientFold(Head(args), Tail(args)))>>

(***************************************************************************)
(* The apply builtin at the REPL: (apply F 'a ... '(c ...)) for a host     *)
(* function and for a lambda that returns the list of its arguments, with  *)
(* argument values that are numbers, symbols and lists.                    *)
(***************************************************************************)
MaxApplyLines == 1

MaxApplyArgs == 2

ApplyFunctions == {Sym("list"), Fn(<<Sym("&"), Sym("r")>>, <<Sym("r")>>)}

SelfEvaluating == {Num(1), new_keyword(":k")}

ApplyValues == SelfEvaluating \cup {Sym("a"), Lst(<<Sym("list"), Num(2)>>)}

ApplySeqs == UNION {[1 .. k -> ApplyValues] : k \in 0 .. MaxApplyArgs}

Quoted(vals) == [i \in 1 .. Len(vals) |-> Quote(vals[i])]

\* (apply F 'lead... 'tail) with the tail a list or a vector
ApplyForm(f, lead, tail, as_vector) ==
    Lst(<<Sym("apply"), f>> \o Quoted(lead)
            \o <<Quote(IF as_vector THEN Vec(tail) ELSE Lst(tail))>>)

\* (F 'lead... 'tail...)
DirectForm(f, lead, tail) == Lst(<<f>> \o Quoted(lead \o tail))

ApplyCases ==
    {<<f, lead, tail, v>> : f \in ApplyFunctions,
                            lead \in {<<>>, <<Num(1)>>, <<Sym("a")>>},
                            tail \in ApplySeqs, v \in BOOLEAN}

ApplyInputs == {ApplyForm(c[1], c[2], c[3], c[4]) : c \in ApplyCases}

NextApply == \E form \in ApplyInputs : steps < MaxApplyLines /\ rep(form)

SpecApply == Init /\ [][NextApply]_vars

\* The line just evaluated is the apply form of case c and its result is
\* the result the direct call has in the state before the line.
ApplyAsDirect(c) ==
    last'[2] = ApplyForm(c[1], c[2], c[3], c[4])
        => last'[3] = Outcome(eval(DirectForm(c[1], c[2], c[3]), RootEnv, st))

AllSelfEvaluating(c) ==
    /\ \A i \in 1 .. Len(c[2]) : c[2][i] \in SelfEvaluating
    /\ \A i \in 1 .. Len(c[3]) : c[3][i] \in SelfEvaluating

\* apply is the direct call for a host function, and for a lambda whose
\* argument values evaluate to themselves.
ApplyHoldsWithoutSecondEvaluation ==
    [][\A c \in ApplyCases : Tag(c[1]) = "Symbol" \/ AllSelfEvaluating(c) => ApplyAsDirect(c)]_vars

\* C27: (apply F A B [C D]) is equivalent to the call (F A B C D) on the
\* argument values, for a host function and for a Lambda alike: no value is
\* evaluated a second time.
C27_ApplyBuiltin == [][\A c \in ApplyCases : ApplyAsDirect(c)]_vars

(***************************************************************************)
(* swap! with a function that touches an atom while it runs: the atom      *)
(* being swapped, read directly or through the closure g, reset or swapped *)
(* again, and the other atom b.  The setup line is the one of the atoms    *)
(* above.                                                                  *)
(***************************************************************************)
MaxReentryLines == 3

SwapWith(body) == Call("swap!", <<Sym("a"), Fn(<<Sym("v")>>, <<body>>)>>)

\* (swap! a (fn* (v) (deref a))) and (swap! a (fn* (v) (g)))
ReentrantReads == {SwapWith(Call("deref", <<Sym("a")>>)), SwapWith(Lst(<<Sym("g")>>))}

\* (swap! a (fn* (v) (reset! a 9))) and (swap! a (fn* (v) (swap! a + 1)))
ReentrantWrites ==
    {SwapWith(Call("reset!", <<Sym("a"), Num(9)>>)),
     SwapWith(Call("swap!", <<Sym("a"), Sym("+"), Num(1)>>))}

\* (swap! a (fn* (v) (deref b))) and (swap! a (fn* (v) (reset! b v)))
OtherAtomReads == SwapWith(Call("deref", <<Sym("b")>>))

OtherAtomWrites == SwapWith(Call("reset!", <<Sym("b"), Sym("v")>>))

ReentryInputs ==
    {AtomSetup, ResetA, DerefB, OtherAtomReads, OtherAtomWrites}
        \cup ReentrantReads \cup ReentrantWrites \cup DerefA

NextReentry == \E form \in ReentryInputs : steps < MaxReentryLines /\ rep(form)

SpecReentry == Init /\ [][NextReentry]_vars

\* A function that touches another atom than the one being swapped sees
\* and changes that atom, and swap! stores what the function answers.
SwapTouchingOtherAtom ==
    [][AtomsBound(st) =>
        /\ last'[2] = OtherAtomReads =>
              /\ last'[3] = <<"Ok", ValueOf(st, "b")>>
              /\ ValueOf(st', "a") = ValueOf(st, "b")
        /\ last'[2] = OtherAtomWrites =>
              /\ last'[3] = <<"Ok", ValueOf(st, "a")>>
              /\ ValueOf(st', "b") = ValueOf(st, "a")]_vars

\* C28: while swap! on atom a applies its function, the function may deref
\* a, directly or through a closure, and observes the value a held before
\* the swap, and may reset! or swap! a; the outer swap! returns a value or an
\* evaluation error and the interpreter does not abort.
C28_SwapReentrancy ==
    [][AtomsBound(st) =>
        /\ last'[2] \in ReentrantReads => last'[3] = <<"Ok", ValueOf(st, "a")>>
        /\ last'[2] \in ReentrantWrites => last'[3][1] \in {"Ok", "Err"}]_vars

(***************************************************************************)
(* Frames at the REPL: lambda calls and let* forms whose parameters and    *)
(* names are also bound in the root frame, in the frame a closure captured *)
(* and in the frame of the caller.  No body runs def!, defmacro! or eval.  *)
(***************************************************************************)
MaxScopeLines == 3

\* (def! x 1), (def! f (fn* (x y) [x y])) and
\* (def! k (let* (x 2) (fn* (y) [x y]))): k captures the frame of its let*
ScopeDefs ==
    {Def("x", Num(1)),
     Def("f", Fn(<<Sym("x"), Sym("y")>>, <<Vec(<<Sym("x"), Sym("y")>>)>>)),
     Def("k", Let(<<Sym("x"), Num(2)>>, Fn(<<Sym("y")>>, <<Vec(<<Sym("x"), Sym("y")>>)>>)))}

Do(forms) == Lst(<<Sym(SEQUENCE_FORM)>> \o forms)

CallF == Call("f", <<Num(5), Num(6)>>)

CallK == Call("k", <<Num(7)>>)

\* (let* (x 9 y x) [x y])
LetXY == Let(<<Sym("x"), Num(9), Sym("y"), Sym("x")>>, Vec(<<Sym("x"), Sym("y")>>))

\* (let* (x 3 y 4) (do (f 5 6) (k 7) [x y])): the calls bind x and y again
LetAroundCalls ==
    Let(<<Sym("x"), Num(3), Sym("y"), Num(4)>>, Do(<<CallF, CallK, Vec(<<Sym("x"), Sym("y")>>)>>))

\* ((fn* (x) (let* (x 8) x)) 5) and ((fn* (x) (do (let* (x 8) x) x)) 5)
LetInCall ==
    {Lst(<<Fn(<<Sym("x")>>, <<Let(<<Sym("x"), Num(8)>>, Sym("x"))>>), Num(5)>>),
     Lst(<<Fn(<<Sym("x")>>, <<Do(<<Let(<<Sym("x"), Num(8)>>, Sym("x")), Sym("x")>>)>>), Num(5)>>)}

ScopeCalls == {CallF, CallK, LetXY, LetAroundCalls} \cup LetInCall

ScopeInputs == ScopeDefs \cup ScopeCalls

NextScope == \E form \in ScopeInputs : steps < MaxScopeLines /\ rep(form)

SpecScope == Init /\ [][NextScope]_vars

ScopeNames == {"x", "y", "f", "k"}

\* The names a frame binds among those the inputs use, with their values.
BoundIn(s, env) ==
    [n \in ScopeNames \cap DOMAIN s.envs[env].bindings |-> s.envs[env].bindings[n]]

\* C30: the parameter bindings of a lambda call and the bindings of a let*
\* go into the fresh child frame of that call or let* only: every frame that
\* existed before the line binds and resolves each name as before, and each
\* new frame is a child that binds nothing but parameters or let* names.
C30_ScopeIsolation ==
    [][last'[2] \in ScopeCalls =>
        /\ Len(st'.envs) >= Len(st.envs)
        /\ \A env \in EnvIds(st) :
              /\ BoundIn(st', env) = BoundIn(st, env)
              /\ st'.envs[env].outer = st.envs[env].outer
              /\ \A n \in ScopeNames : Resolves(st', env, n) = Resolves(st, env, n)
        /\ \A env \in EnvIds(st') \ EnvIds(st) :
              /\ st'.envs[env].outer # NoEnv
              /\ DOMAIN st'.envs[env].bindings \subseteq {"x", "y"}]_vars

\* k has been called with the root frame binding x to 1 and the captured
\* frame binding x to 2, and a let* around calls of f and k has returned its
\* own x and y.
C30_Witness ==
    /\ last[1] = "rep"
    /\ last[2] = LetAroundCalls
    /\ last[3] = <<"Ok", Vec(<<Num(3), Num(4)>>)>>
    /\ Resolves(st, RootEnv, "x") = <<"Ok", Num(1)>>
    /\ Resolves(st, RootEnv, "k")[1] = "Ok"
    /\ \E env \in EnvIds(st) : BoundIn(st, env) = ("x" :> Num(2))

(***************************************************************************)
(* repl.rs, prelude.rs and bin/step8_macros.rs: the process.  main runs    *)
(* Repl::run and returns; a panic ends the process instead.  st.env is the *)
(* interpreter state, st.pc the position in Repl::run, st.args the command *)
(* line after the program name, st.exit how the process ended.             *)
(***************************************************************************)
MaxRunLines == 2

ARGV_SYMBOL == "*ARGV*"

GREETING_FORM == "(println (str \"Mal [\" *host-language* \"]\"))"

IMPLEMENTATION_NAME == "mal-rs"

\* impl Display for EvaluationError: <<TRUE, text>>, or <<FALSE>> where the
\* arm is unreachable!()
EvaluationError_to_string(e, s) ==
    CASE e[1] = "WrongArity" ->
            <<TRUE, "TODO -- wrong number of arguments for fn: " \o print(e[2], s)>>
      [] e[1] = "BadArguments" -> <<TRUE, "TODO -- bad inputs for fn: " \o print(e[2], s)>>
      [] e[1] = "Message" -> <<TRUE, e[2]>>
      [] e[1] = "MissingSymbol" -> <<TRUE, "unbound symbol: " \o e[2]>>
      [] e[1] = "Exception" -> <<FALSE>>

\* impl Display for ReaderError
ReaderError_to_string(e) ==
    CASE e[2] = "Message" -> e[3]
      [] e[2] = "ExtraInput" -> "extra input after full form"
      [] e[2] = "EmptyInput" -> ""

IsReaderError(e) == e[1] = "ReaderError"

\* println! of the REPL
Println(text, s) == [s EXCEPT !.out = Append(@, <<"stdout", text>>)]

\* Reader::write_err: the message goes to standard error
write_err(msg, s) == [s EXCEPT !.out = Append(@, <<"stderr", msg>>)]

\* Ok(print(&val)) after try!(eval(&ast, env))
Printed(val) ==
    IF ~IsOk(val) THEN val ELSE Ok(print(val.val, val.st), val.st)

\* try!(read(input)), then eval in the root frame
EvalRead(ast, s) ==
    IF IsHang(ast) THEN Hang(s)
    ELSE IF ~IsOk(ast) THEN Err(ast.val, s)
    ELSE Printed(eval(ast.val, RootEnv, s))

\* Repl::rep: read, eval, print
Repl_rep(input, s) == EvalRead(read(input), s)

PreludeInputs ==
    <<"(def! not (fn* (a) (if a false true)))",
      "(def! load-file (fn* (f) (eval (read-string (str \"(do \" (slurp f) \")\")))))",
      "(def! *ARGV* (list))",
      "(defmacro! cond (fn* (& xs) (if (> (count xs) 0) (list 'if (first xs) (if (> (count xs) 1) (nth xs 1) (throw \"odd number of forms to cond\")) (cons 'cond (rest (rest xs)))))))",
      "(def! *gensym-counter* (atom 0))",
      "(def! gensym (fn* [] (symbol (str \"G__\" (swap! *gensym-counter* (fn* [x] (+ 1 x)))))))",
      "(defmacro! or (fn* (& xs) (if (empty? xs) nil (if (= 1 (count xs)) (first xs) (let* (condvar (gensym)) "
          \o Backquote
          \o "(let* (~condvar ~(first xs)) (if ~condvar ~condvar (or ~@(rest xs)))))))))",
      "(def! *host-language* \"" \o IMPLEMENTATION_NAME \o "\")">>

Xs == Sym("xs")

If(seq) == Lst(<<Sym(IF_FORM)>> \o seq)

\* reader::read of the inputs of the prelude, in their order.  The reader is
\* run on each input in SpecTexts, and TabulatedReads states that it gives
\* these forms.
PreludeForms ==
    <<Def("not", Fn(<<Sym("a")>>, <<If(<<Sym("a"), new_boolean(FALSE), new_boolean(TRUE)>>)>>)),
      Def("load-file",
          Fn(<<Sym("f")>>,
             <<Lst(<<Sym(EVAL_FORM),
                     Call("read-string",
                          <<Call("str", <<new_string("(do "), Call("slurp", <<Sym("f")>>),
                                          new_string(")")>>)>>)>>)>>)),
      Def("*ARGV*", Call("list", <<>>)),
      Defmacro("cond",
          Fn(<<Sym("&"), Xs>>,
             <<If(<<Call(">", <<Call("count", <<Xs>>), Num(0)>>),
                    Call("list",
                         <<Quote(Sym("if")),
                           Call("first", <<Xs>>),
                           If(<<Call(">", <<Call("count", <<Xs>>), Num(1)>>),
                                Call("nth", <<Xs, Num(1)>>),
                                Call("throw", <<new_string("odd number of forms to cond")>>)>>),
                           Call("cons", <<Quote(Sym("cond")),
                                          Call("rest", <<Call("rest", <<Xs>>)>>)>>)>>)>>)>>)),
      Def("*gensym-counter*", Call("atom", <<Num(0)>>)),
      Def("gensym",
          Lst(<<Sym(LAMBDA_FORM), Vec(<<>>),
                Call("symbol",
                     <<Call("str",
                            <<new_string("G__"),
                              Call("swap!",
                                   <<Sym("*gensym-counter*"),
                                     Lst(<<Sym(LAMBDA_FORM), Vec(<<Sym("x")>>),
                                           Call("+", <<Num(1), Sym("x")>>)>>)>>)>>)>>)>>)),
      Defmacro("or",
          Fn(<<Sym("&"), Xs>>,
             <<If(<<Call("empty?", <<Xs>>),
                    new_nil,
                    If(<<Call("=", <<Num(1), Call("count", <<Xs>>)>>),
                         Call("first", <<Xs>>),
                         Let(<<Sym("condvar"), Call("gensym", <<>>)>>,
                             Quasi(Let(<<Unquote(Sym("condvar")),
                                         Unquote(Call("first", <<Xs>>))>>,
                                       If(<<Unquote(Sym("condvar")),
                                            Unquote(Sym("condvar")),
                                            Call("or", <<SpliceUnquote(Call("rest", <<Xs>>))>>)>>))))>>)>>)>>)),
      Def("*host-language*", new_string(IMPLEMENTATION_NAME))>>

\* Repl::rep after read has given the form: eval in the root frame, print
RepForm(form, s) == Printed(eval(form, RootEnv, s))

RECURSIVE LoadInputs(_, _)
\* try!(repl.rep(input, env)): the first error ends the loop
TryRep(r, forms) ==
    IF ~IsOk(r) THEN r ELSE LoadInputs(forms, r.st)

\* for input in inputs { try!(repl.rep(input, env)) }, on the forms read
\* gives for the inputs
LoadInputs(forms, s) ==
    IF forms = <<>> THEN Ok(None, s) ELSE TryRep(RepForm(Head(forms), s), Tail(forms))

load(s) == LoadInputs(PreludeForms, s)

\* env::core(): the root frame with the host functions, and nothing else
CoreEnv ==
    [envs |-> <<EnvData(core, NoEnv)>>, borrowed |-> {}, atoms |-> <<>>, held |-> {},
     out |-> <<>>]

\* The outcome of a step of Repl::run: the interpreter state, where run goes
\* on, and how the process ended if it did.
Goes(s, pc) == [env |-> s, pc |-> pc, exit |-> "none"]

\* run returns to main, and main returns: exit status zero
Returns(s) == [env |-> s, pc |-> "exited", exit |-> "returned"]

\* a panic unwinds main: exit status nonzero
Panics(s) == [env |-> s, pc |-> "exited", exit |-> "panicked"]

\* the call never returns
Hangs(s) == [env |-> s, pc |-> "hung", exit |-> "none"]

\* write_err of e.to_string(), or the panic of to_string
WriteText(text, s, pc) ==
    IF text[1] THEN Goes(write_err(text[2], s), pc) ELSE Panics(s)

\* self.reader.write_err(e.to_string()) for an EvaluationError
ReportEvaluationError(e, s, pc) == WriteText(EvaluationError_to_string(e, s), s, pc)

\* the arm of the loop for a ReaderError
ReportReaderError(e, s) ==
    IF e[2] = "Message" THEN Goes(write_err(e[3], s), "loop") ELSE Goes(s, "loop")

ReportExtraInput(e, s) == Goes(write_err(ReaderError_to_string(e), s), "loop")

RunArgs ==
    {<<>>} \cup {<<f>> \o rest : f \in DOMAIN Files \cup {"none.mal"}, rest \in {<<>>, <<"x", "y">>}}

RunLines ==
    {"(def! a 1)", "a", "(+ a 1)", "(not a)", "b", "(do (def! c 3) (b))", "(+ 1", ")", "1 2", "",
     "(throw 1)", "(try* (throw 1) (catch* e e))"}

InitRun ==
    /\ \E args \in RunArgs :
          st = [env |-> CoreEnv, pc |-> "prelude", exit |-> "none", args |-> args]
    /\ last = <<"start", "", <<"Ok", None>> >>
    /\ steps = 0

\* The step of Repl::run that rep answered r in, and that ends as `to`.
Step(kind, input, r, to) ==
    /\ st' = [st EXCEPT !.env = to.env, !.pc = to.pc, !.exit = to.exit]
    /\ last' = <<kind, input, <<r.tag, r.val>> >>

\* the match on the result of prelude::load
Loaded(r, after) ==
    Step("prelude", "", r,
         CASE IsOk(r) -> Goes(r.st, after)
           [] IsHang(r) -> Hangs(r.st)
           [] IsPanic(r) -> Panics(r.st)
           [] IsReaderError(r.val) -> Goes(write_err(ReaderError_to_string(r.val), r.st), after)
           [] OTHER -> ReportEvaluationError(r.val, r.st, after))

\* let env = env::core(); match prelude::load(self, env.clone())
LoadPrelude ==
    /\ st.pc = "prelude"
    /\ Loaded(load(CoreEnv), IF st.args # <<>> THEN "script" ELSE "greeting")
    /\ UNCHANGED steps

\* rep_from_file
rep_from_file(file_name, s) == Repl_rep("(load-file \"" \o file_name \o "\")", s)

\* run returns after the report of an EvaluationError, unless to_string panicked
ReturnAfter(told) == IF told.exit = "panicked" THEN told ELSE Returns(told.env)

\* the match on the result of rep_from_file, and the return
Scripted(file_name, r) ==
    Step("script", file_name, r,
         CASE IsOk(r) -> Returns(Println(r.val, r.st))
           [] IsHang(r) -> Hangs(r.st)
           [] IsPanic(r) -> Panics(r.st)
           [] IsReaderError(r.val) -> Returns(r.st)
           [] OTHER -> ReturnAfter(ReportEvaluationError(r.val, r.st, "exited")))

\* the arguments after the file name, as a list of symbols
list_args(env_args) == new_list([i \in 1 .. Len(env_args) |-> new_symbol(env_args[i])])

\* if !args.is_empty() { ... return; }
RunScript ==
    /\ st.pc = "script"
    /\ Scripted(Head(st.args),
                rep_from_file(Head(st.args),
                              EnvSet(st.env, RootEnv, ARGV_SYMBOL, list_args(Tail(st.args)))))
    /\ UNCHANGED steps

\* the result of the greeting is dropped
Greeted(r) ==
    Step("greeting", GREETING_FORM, r,
         CASE IsHang(r) -> Hangs(r.st)
           [] IsPanic(r) -> Panics(r.st)
           [] OTHER -> Goes(r.st, "loop"))

\* let _ = self.rep(GREETING_FORM.into(), env.clone())
Greeting ==
    /\ st.pc = "greeting"
    /\ Greeted(Repl_rep(GREETING_FORM, st.env))
    /\ UNCHANGED steps

\* the match on the result of rep_from_reader
Answered(line, r) ==
    Step("line", line, r,
         CASE IsOk(r) -> Goes(Println(r.val, r.st), "loop")
           [] IsHang(r) -> Hangs(r.st)
           [] IsPanic(r) -> Panics(r.st)
           [] IsReaderError(r.val) ->
                IF r.val[2] = "ExtraInput" THEN ReportExtraInput(r.val, r.st)
                ELSE ReportReaderError(r.val, r.st)
           [] OTHER -> ReportEvaluationError(r.val, r.st, "loop"))

\* one turn of the loop with Some(line) from the line reader
ReadLine(line) ==
    /\ st.pc = "loop"
    /\ steps < MaxRunLines
    /\ Answered(line, Repl_rep(line, st.env))
    /\ steps' = steps + 1

\* the line reader answers None: ReplError::EOF => break, and run returns
ReadEOF ==
    /\ st.pc = "loop"
    /\ st' = [st EXCEPT !.pc = "exited", !.exit = "returned"]
    /\ last' = <<"eof", "", <<"Ok", None>> >>
    /\ UNCHANGED steps

NextRun ==
    \/ LoadPrelude
    \/ RunScript
    \/ Greeting
    \/ \E line \in RunLines : ReadLine(line)
    \/ ReadEOF

SpecRun == InitRun /\ [][NextRun]_vars

RootNames(s) == DOMAIN s.envs[RootEnv].bindings

\* The line just answered ended in a reader error or an evaluation error.
LineFailed == last'[1] = "line" /\ last'[3][1] = "Err"

\* The loop reads on after the line: the error is on standard error (an
\* EmptyInput has no text), the names of the root frame are still bound, and
\* the loop is where it reads the next line.
LoopGoesOn ==
    /\ st'.pc = "loop"
    /\ st'.exit = "none"
    /\ RootNames(st.env) \subseteq RootNames(st'.env)
    /\ \/ last'[3][2] = EmptyInput
       \/ /\ Len(st'.env.out) = Len(st.env.out) + 1
          /\ st'.env.out[Len(st'.env.out)][1] = "stderr"

\* After a reader error, or an evaluation error other than an uncaught
\* exception, the error is reported and the loop reads the next line with
\* the bindings of the earlier lines; after a line that gave a value the
\* loop reads on as well.
LoopGoesOnAfterMessages ==
    [][/\ LineFailed /\ last'[3][2][1] # "Exception" => LoopGoesOn
       /\ last'[1] = "line" /\ last'[3][1] = "Ok" => st'.pc = "loop"]_vars

\* C24: in REPL mode, after any reader error or evaluation error on a line
\* the error is reported and the loop goes on to read the next line with the
\* bindings of the earlier lines kept, and the loop ends only on EOF.
C24_ReplLoop ==
    [][/\ LineFailed => LoopGoesOn
       /\ st.pc = "loop" /\ st'.pc # "loop" => last'[1] = "eof"]_vars

ScriptMode == st.args # <<>>

ScriptEnded == ScriptMode /\ last[1] = "script" /\ st.pc = "exited"

\* With arguments the process binds *ARGV* to the list of the arguments after
\* the file name, evaluates the load-file form, and never greets or reads a
\* line.
ScriptSkipsLoop ==
    ScriptMode =>
        /\ st.pc \notin {"greeting", "loop"}
        /\ last[1] \in {"start", "prelude", "script"}
        /\ last[1] = "script" =>
              /\ last[2] = Head(st.args)
              /\ st.env.envs[RootEnv].bindings[ARGV_SYMBOL] = list_args(Tail(st.args))

\* A script that ended did so by the return of main, exit code 0, whether
\* its evaluation gave a value or an error, except that an uncaught
\* exception ends the process by the panic of to_string.
ScriptReturnsUnlessException ==
    ScriptEnded =>
        IF last[3][1] = "Err" /\ last[3][2][1] = "Exception"
        THEN st.exit = "panicked"
        ELSE st.exit = "returned"

\* C25: in script mode the process loads the prelude, binds *ARGV*, evaluates
\* the load-file form and ends without entering the read loop; when the
\* evaluation yields an error the exit code is nonzero, and on success it
\* is 0.
C25_ScriptExit ==
    /\ ScriptSkipsLoop
    /\ ScriptEnded =>
          /\ last[3][1] = "Err" => st.exit # "returned"
          /\ last[3][1] = "Ok" => st.exit = "returned"

(***************************************************************************)
(* The reader on the inputs of the prelude and on the texts read-string is *)
(* given, step by step.                                                    *)
(***************************************************************************)
PreludeTexts == {PreludeInputs[i] : i \in DOMAIN PreludeInputs}

NextTexts ==
    \/ \E input \in PreludeTexts \cup DOMAIN ReadOutcomes : CallRead(input)
    \/ ReaderStep

SpecTexts == InitReader /\ [][NextTexts]_vars

\* read gives the tabulated form for each input of the prelude, and the
\* tabulated outcome for each text of read-string that it returns for.
TabulatedReads ==
    ReadReturned =>
        /\ \A i \in DOMAIN PreludeInputs :
              last[2] = PreludeInputs[i] => last[3] = <<"Ok", PreludeForms[i]>>
        /\ last[2] \in DOMAIN ReadOutcomes => last[3] = ReadOutcomes[last[2]]

\* read does not return for a text that is tabulated as a hang.
TabulatedHangs ==
    ReadReturned /\ last[2] \in DOMAIN ReadOutcomes => ReadOutcomes[last[2]][1] # "Hang"

====
